---- MODULE Spec2Model ----
(***************************************************************************)
(* Access-control and session-lifecycle subsystem of the collaborative     *)
(* dev platform backend: JWT issuance and verification (config/auth.js),   *)
(* the Redis-backed refresh-token cache and the register / login / logout  *)
(* / refresh handlers (routes/api/auth.js), the authentication and         *)
(* role-check middleware (middleware/auth.js) and the collaborator         *)
(* routes (routes/api/collaborators.js), the CSRF middleware               *)
(* (middleware/csrf.js) with the server's middleware chain (server.js),    *)
(* and the ticket and note creation handlers.                              *)
(*                                                                         *)
(* Handlers are modelled at the granularity of their await points: one     *)
(* action per stretch of code that touches the database or the cache.      *)
(* Spec, SpecRole, SpecResolve, SpecToken and SpecViewer run one request   *)
(* at a time, with the clock free to advance between steps; SpecRegister   *)
(* and SpecLogin run two requests with their steps interleaved; SpecCsrf   *)
(* applies the CSRF functions to one request.  SpecExpiry, SpecKinds and   *)
(* SpecTicket are sequential too; SpecInvite and SpecSession interleave    *)
(* two requests; SpecLimiter runs the rate limiters against the counter    *)
(* store.  A request lives in a slot of `req` until its                    *)
(* response; `resp` holds the response the last step sent (NoResp when the *)
(* last step sent none), so a predicate on resp is a postcondition.        *)
(*                                                                         *)
(* Name binding: the auth routes import generateTokens / setRedis /        *)
(* getRedis / deleteRedis; config/auth.js and config/redis.js export the   *)
(* same operations as generateTokenPair / setEx / get / del.  The model    *)
(* binds the imported names to those exports.                              *)
(***************************************************************************)
EXTENDS Integers, Sequences, FiniteSets, TLC

VARIABLES
    env,        \* process.env: JWT_SECRET, JWT_REFRESH_SECRET, JWT_EXPIRY, JWT_REFRESH_EXPIRY
    now,        \* wall clock, in seconds
    ticks,      \* number of clock advances so far
    users,      \* table users: set of rows
    nextUserId, \* next user_id the database hands out
    redis,      \* the Redis keyspace: set of entries [key, val, expireAt]
    issued,     \* the token pairs generated so far
    lastWritten,\* per user id, the refresh token most recently written to the cache
    loggedOut,  \* user ids whose last session event was a successful logout
    req,        \* in-flight requests, one per slot, with the handler's locals
    resp,       \* the response sent by the last step, if that step sent one
    projects,   \* table projects: set of rows [project_id, owner_id]
    nextProjectId,
    collabs,    \* table project_collaborators: set of rows
    nextCollabId,
    accepted,   \* collaboration ids whose accept request has been answered 200
    invitedAs,  \* <<collaboration id, role>> of every invitation that was inserted
    mw,         \* requests in the role-check middleware and route handlers, one per slot
    mwResp,     \* the response sent by the last step of a project route, if it sent one
    http,       \* the HTTP request in the server's middleware chain, with its position
    httpResp,   \* what the last middleware step did with it: response sent or next()
    tickets,    \* table tickets: set of rows [ticket_id, project_id, created_by, assigned_to]
    nextTicketId,
    notes,      \* table notes: set of rows [note_id, project_id, author_id, parent_note_id]
    nextNoteId,
    limits,     \* the rate-limit counters in Redis: set of entries [key, val, expireAt]
    rlHist,     \* per limiter and caller key, since the last reset: requests, admission
                \* times, creation time of the current counter
    rlPending,  \* per limiter and caller key: admitted requests whose response is not finished
    rlResp      \* what the last rate-limiter step did: next() or 429

vars == <<env, now, ticks, users, nextUserId, redis, issued, lastWritten, loggedOut, req, resp,
          projects, nextProjectId, collabs, nextCollabId, accepted, invitedAs, mw, mwResp,
          http, httpResp, tickets, nextTicketId, notes, nextNoteId,
          limits, rlHist, rlPending, rlResp>>

authVars == <<env, now, ticks, users, nextUserId, redis, issued, lastWritten, loggedOut, req, resp>>
roleVars == <<projects, nextProjectId, collabs, nextCollabId, accepted, invitedAs, mw, mwResp>>
httpVars == <<http, httpResp>>
docVars == <<tickets, nextTicketId, notes, nextNoteId>>
rlVars == <<limits, rlHist, rlPending, rlResp>>

----------------------------------------------------------------------------
\* Bounds of the model

MaxTicks == 1
MaxRows == 2
MaxDocs == 1
MaxExtra == 1

\* Request slots: the sequential specifications use the first one only
Slots == {"s1", "s2"}
SeqSlots == {"s1"}

Emails == {"a@x.com", "b@x.com"}
Passwords == {"P@ssw0rd1", "Wr0ngPass"}

----------------------------------------------------------------------------
\* Token issuer (config/auth.js)

Unset == "<unset>"

\* jwtConfig.expiresIn '15m' and jwtConfig.refreshExpiresIn '7d', in seconds
AccessExpiresIn == 15 * 60
RefreshExpiresIn == 7 * 24 * 60 * 60

\* TTL the auth routes give the cache entry
REFRESH_TOKEN_EXPIRY == 7 * 24 * 60 * 60

\* the seconds jsonwebtoken reads from a time-span string
Timespan(str) ==
    CASE str = "15m" -> 15 * 60
      [] str = "1d" -> 24 * 60 * 60
      [] str = "7d" -> 7 * 24 * 60 * 60
      [] str = "30d" -> 30 * 24 * 60 * 60

jwtConfig(e) ==
    [secret |-> IF e.JWT_SECRET = Unset
                THEN "your-secret-key-change-in-production" ELSE e.JWT_SECRET,
     refreshSecret |-> IF e.JWT_REFRESH_SECRET = Unset
                       THEN "your-refresh-secret-change-in-production"
                       ELSE e.JWT_REFRESH_SECRET,
     expiresIn |-> IF e.JWT_EXPIRY = Unset THEN AccessExpiresIn ELSE Timespan(e.JWT_EXPIRY),
     refreshExpiresIn |-> IF e.JWT_REFRESH_EXPIRY = Unset THEN RefreshExpiresIn
                          ELSE Timespan(e.JWT_REFRESH_EXPIRY)]

\* A JWT is determined by its payload, the issue second and the signing key.
\* sig names the key the signature was made with.
NoToken == [sig |-> "<absent>", userId |-> 0, email |-> "", username |-> "", iat |-> 0, exp |-> 0]
Malformed == [sig |-> "<malformed>", userId |-> 0, email |-> "", username |-> "", iat |-> 0, exp |-> 0]

\* jwt.sign(payload, secret, {expiresIn}) at second t
jwtSign(payload, secret, expiresIn, t) ==
    [sig |-> secret, userId |-> payload.userId, email |-> payload.email,
     username |-> payload.username, iat |-> t, exp |-> t + expiresIn]

\* a verification that reads the claims and the expiry without the signature
jwtVerify_unsigned(token, secret, t) ==
    IF token = NoToken \/ token = Malformed
    THEN [ok |-> FALSE, name |-> "JsonWebTokenError", decoded |-> NoToken]
    ELSE IF t >= token.exp
    THEN [ok |-> FALSE, name |-> "TokenExpiredError", decoded |-> NoToken]
    ELSE [ok |-> TRUE, name |-> "", decoded |-> token]

\* jwt.verify(token, secret) at second t: the decoded claims or the error name
jwtVerify(token, secret, t) ==
    IF token = NoToken \/ token = Malformed
    THEN [ok |-> FALSE, name |-> "JsonWebTokenError", decoded |-> NoToken]
    ELSE IF secret = Unset
    THEN [ok |-> FALSE, name |-> "JsonWebTokenError", decoded |-> NoToken]
    ELSE IF token.sig # secret
    THEN [ok |-> FALSE, name |-> "JsonWebTokenError", decoded |-> NoToken]
    ELSE IF t >= token.exp
    THEN [ok |-> FALSE, name |-> "TokenExpiredError", decoded |-> NoToken]
    ELSE [ok |-> TRUE, name |-> "", decoded |-> token]

generateAccessToken(e, payload, t) ==
    jwtSign(payload, jwtConfig(e).secret, jwtConfig(e).expiresIn, t)

generateRefreshToken_accessSecret(e, payload, t) ==
    jwtSign(payload, jwtConfig(e).secret, jwtConfig(e).refreshExpiresIn, t)

generateRefreshToken(e, payload, t) ==
    jwtSign(payload, jwtConfig(e).refreshSecret, jwtConfig(e).refreshExpiresIn, t)

generateTokenPair(e, userId, email, username, t) ==
    LET payload == [userId |-> userId, email |-> email, username |-> username]
    IN [accessToken |-> generateAccessToken(e, payload, t),
        refreshToken |-> generateRefreshToken(e, payload, t)]

\* verifyAccessToken / verifyRefreshToken: the decoded claims, or one Error
\* whose message is the same for every cause
verifyAccessToken(e, token, t) ==
    LET r == jwtVerify(token, jwtConfig(e).secret, t)
    IN IF r.ok THEN [ok |-> TRUE, message |-> "", decoded |-> r.decoded]
       ELSE [ok |-> FALSE, message |-> "Invalid or expired token", decoded |-> NoToken]

verifyRefreshToken(e, token, t) ==
    LET r == jwtVerify(token, jwtConfig(e).refreshSecret, t)
    IN IF r.ok THEN [ok |-> TRUE, message |-> "", decoded |-> r.decoded]
       ELSE [ok |-> FALSE, message |-> "Invalid or expired refresh token", decoded |-> NoToken]

----------------------------------------------------------------------------
\* Session cache (config/redis.js)

JSONstringify(v) == <<"json", v>>
JSONparse(s) == s[2]

refreshKey(userId) == <<"refresh_token", userId>>

Live(r, t) == {x \in r : t < x.expireAt}

\* setEx(key, value, expirationInSeconds)
setRedis(r, key, value, ttl, t) ==
    {x \in r : x.key # key} \cup {[key |-> key, val |-> JSONstringify(value), expireAt |-> t + ttl]}

\* get(key): the parsed value, or null (NoToken)
getRedis(r, key, t) ==
    LET hit == {x \in Live(r, t) : x.key = key}
    IN IF hit = {} THEN NoToken ELSE JSONparse((CHOOSE x \in hit : TRUE).val)

deleteRedis_noop(r, key) == r

\* del(key)
deleteRedis(r, key) == {x \in r : x.key # key}

----------------------------------------------------------------------------
\* Role resolver (middleware/auth.js, requireProjectRole) and the inline
\* project-access check of the project, ticket and note routes

NULL == -1
NoProject == 0
NoCollab == [collaboration_id |-> 0, project_id |-> 0, user_id |-> 0, role |-> "", accepted_at |-> NULL]

Roles == {"owner", "editor", "viewer"}

IdleMw ==
    [route |-> "none", pc |-> "idle", userId |-> 0, projectId |-> NoProject,
     allowed |-> {}, rows |-> {}, projectRole |-> "",
     collabId |-> 0, email |-> "", role |-> "", perms |-> FALSE,
     ownerId |-> 0, invitedId |-> 0, collab |-> NoCollab,
     ticketId |-> 0, hasTitle |-> FALSE, assign |-> [sent |-> FALSE, value |-> NULL],
     status |-> 0, message |-> ""]

NoMwResp == IdleMw

MwFree(i) == mw[i].pc = "idle"

\* what the client is answered: the status and message, with the request's
\* route, caller, project, collaboration and resolved role kept beside them
MwRespond(r, status, message) ==
    [IdleMw EXCEPT !.pc = "done", !.route = r.route, !.userId = r.userId,
                   !.projectId = r.projectId, !.collabId = r.collabId,
                   !.projectRole = r.projectRole, !.status = status, !.message = message]

\* SELECT role FROM project_collaborators
\*   WHERE project_id = $1 AND user_id = $2 AND accepted_at IS NOT NULL
AcceptedRoles(cs, projectId, userId) ==
    {c.role : c \in {x \in cs : x.project_id = projectId /\ x.user_id = userId
                                 /\ x.accepted_at # NULL}}

\* SELECT owner_id FROM projects WHERE project_id = $1
OwnerRows(ps, projectId) == {p.owner_id : p \in {x \in ps : x.project_id = projectId}}

\* userRole of requireProjectRole, given result.rows[0].role (or "" when the
\* collaborator query returned no row) and isOwner; "" stands for null
UserRole(row0, isOwner) ==
    IF row0 # "" THEN row0 ELSE (IF isOwner THEN "owner" ELSE "")

RoleDecision_roleFirst(allowedRoles, row0, ownerRows, userId) ==
    LET isOwner == ownerRows # {} /\ (CHOOSE o \in ownerRows : TRUE) = userId
        userRole == UserRole(row0, isOwner)
    IN IF userRole = "" \/ userRole \notin allowedRoles
       THEN [status |-> 403, message |-> "Insufficient permissions for this project",
             role |-> userRole]
       ELSE IF ownerRows = {}
       THEN [status |-> 404, message |-> "Project not found", role |-> ""]
       ELSE [status |-> 0, message |-> "next", role |-> userRole]

\* the decision of requireProjectRole once both queries have answered
RoleDecision(allowedRoles, row0, ownerRows, userId) ==
    IF ownerRows = {}
    THEN [status |-> 404, message |-> "Project not found", role |-> ""]
    ELSE LET isOwner == (CHOOSE o \in ownerRows : TRUE) = userId
             userRole == UserRole(row0, isOwner)
         IN IF userRole = "" \/ userRole \notin allowedRoles
            THEN [status |-> 403, message |-> "Insufficient permissions for this project",
                  role |-> userRole]
            ELSE [status |-> 0, message |-> "next", role |-> userRole]

AccessCheck_anyRow(ps, cs, projectId, userId) ==
    {p \in ps : /\ p.project_id = projectId
                /\ \/ p.owner_id = userId
                   \/ p.project_id \in {c.project_id : c \in {x \in cs : x.user_id = userId}}}

\* SELECT project_id FROM projects WHERE project_id = $1 AND (owner_id = $2 OR
\*   project_id IN (SELECT project_id FROM project_collaborators
\*                  WHERE user_id = $2 AND accepted_at IS NOT NULL))
AccessCheck(ps, cs, projectId, userId) ==
    {p \in ps : /\ p.project_id = projectId
                /\ \/ p.owner_id = userId
                   \/ p.project_id \in {c.project_id : c \in {x \in cs : x.user_id = userId
                                                                       /\ x.accepted_at # NULL}}}

GatedRoutes_editorDeletes ==
    {[route |-> "assets_list", allowed |-> {"owner", "editor", "viewer"}],
     [route |-> "project_update", allowed |-> {"owner", "editor"}],
     [route |-> "project_delete", allowed |-> {"owner", "editor"}]}

\* the routes behind requireProjectRole, with the allow-list each one passes
GatedRoutes ==
    {[route |-> "assets_list", allowed |-> {"owner", "editor", "viewer"}],
     [route |-> "project_update", allowed |-> {"owner", "editor"}],
     [route |-> "project_delete", allowed |-> {"owner"}]}

\* the routes that run the inline access check, with the status of a denial.
\* The list and create routes check the project of the request; the read
\* routes join the ticket or note with its project under the same condition,
\* and the model addresses the ticket or note by the project it belongs to.
InlineRoutes ==
    {[route |-> "project_read", denied |-> 404],
     [route |-> "ticket_list", denied |-> 403],
     [route |-> "ticket_create", denied |-> 403],
     [route |-> "ticket_read", denied |-> 404],
     [route |-> "note_list", denied |-> 403],
     [route |-> "note_create", denied |-> 403],
     [route |-> "note_read", denied |-> 404]}

\* requireProjectRole, first await: the collaborator query
RoleQuery(i, userId, projectId, g) ==
    /\ MwFree(i)
    /\ LET r == [IdleMw EXCEPT !.route = g.route, !.userId = userId, !.projectId = projectId,
                               !.allowed = g.allowed]
       IN IF projectId = NoProject
          THEN /\ mwResp' = MwRespond(r, 400, "Project ID required")
               /\ UNCHANGED mw
          ELSE /\ mw' = [mw EXCEPT ![i] =
                            [r EXCEPT !.pc = "role_owner",
                                      !.rows = AcceptedRoles(collabs, projectId, userId)]]
               /\ mwResp' = NoMwResp
    /\ UNCHANGED <<projects, nextProjectId, collabs, nextCollabId, accepted, invitedAs>>
    /\ UNCHANGED <<authVars, httpVars, docVars, rlVars>>

\* requireProjectRole, second await: the owner query, then the decision.
\* result.rows[0] is any one of the rows the collaborator query returned.
RoleDecide(i) ==
    /\ mw[i].pc = "role_owner"
    /\ \E row0 \in (IF mw[i].rows = {} THEN {""} ELSE mw[i].rows) :
         LET d == RoleDecision(mw[i].allowed, row0, OwnerRows(projects, mw[i].projectId),
                               mw[i].userId)
         IN IF d.status # 0
            THEN /\ mwResp' = [MwRespond(mw[i], d.status, d.message) EXCEPT !.projectRole = d.role]
                 /\ mw' = [mw EXCEPT ![i] = IdleMw]
            ELSE /\ mw' = [mw EXCEPT ![i] = [@ EXCEPT !.pc = "handler", !.projectRole = d.role]]
                 /\ mwResp' = NoMwResp
    /\ UNCHANGED <<projects, nextProjectId, collabs, nextCollabId, accepted, invitedAs>>
    /\ UNCHANGED <<authVars, httpVars, docVars, rlVars>>

\* the route handler behind requireProjectRole: the asset listing answers 200;
\* UPDATE / DELETE ... RETURNING answer 200, or 500 when no row came back
\* (result.rows[0].name on undefined); the delete cascades to the collaborations
RouteHandler(i) ==
    /\ mw[i].pc = "handler"
    /\ LET exists == OwnerRows(projects, mw[i].projectId) # {}
       IN /\ IF mw[i].route = "project_delete" /\ exists
             THEN /\ projects' = {p \in projects : p.project_id # mw[i].projectId}
                  /\ collabs' = {c \in collabs : c.project_id # mw[i].projectId}
             ELSE UNCHANGED <<projects, collabs>>
          /\ mwResp' = IF mw[i].route = "assets_list" \/ exists
                       THEN MwRespond(mw[i], 200, "ok")
                       ELSE MwRespond(mw[i], 500, "failed")
    /\ mw' = [mw EXCEPT ![i] = IdleMw]
    /\ UNCHANGED <<nextProjectId, nextCollabId, accepted, invitedAs>>
    /\ UNCHANGED <<authVars, httpVars, docVars, rlVars>>

\* GET /projects/:id, GET|POST /tickets, GET /tickets/:id, GET|POST /notes,
\* GET /notes/:id: the inline access check and its answer
InlineAccess(i, userId, projectId, g) ==
    /\ MwFree(i)
    /\ LET r == [IdleMw EXCEPT !.route = g.route, !.userId = userId, !.projectId = projectId]
       IN mwResp' = IF AccessCheck(projects, collabs, projectId, userId) = {}
                    THEN MwRespond(r, g.denied, "access denied")
                    ELSE MwRespond(r, 200, "ok")
    /\ UNCHANGED <<projects, nextProjectId, collabs, nextCollabId, accepted, invitedAs, mw>>
    /\ UNCHANGED <<authVars, httpVars, docVars, rlVars>>

\* rows inserted so far into projects and project_collaborators
RowsInserted == (nextProjectId - 1) + (nextCollabId - 1)

\* POST /projects: INSERT INTO projects (..., owner_id, ...) with the caller as owner
ProjectCreate(i, userId) ==
    /\ MwFree(i)
    /\ RowsInserted < MaxRows
    /\ projects' = projects \cup {[project_id |-> nextProjectId, owner_id |-> userId]}
    /\ nextProjectId' = nextProjectId + 1
    /\ mwResp' = MwRespond([IdleMw EXCEPT !.route = "project_create", !.userId = userId,
                                          !.projectId = nextProjectId],
                           201, "Project created successfully")
    /\ UNCHANGED <<collabs, nextCollabId, accepted, invitedAs, mw>>
    /\ UNCHANGED <<authVars, httpVars, docVars, rlVars>>

\* rows inserted so far into tickets and notes
DocsInserted == (nextTicketId - 1) + (nextNoteId - 1)

\* SELECT user_id FROM users WHERE user_id = $1 AND (owner of the project OR
\* accepted collaborator of the project)
AssigneeCheck(us, ps, cs, projectId, assignedTo) ==
    {u \in us : /\ u.user_id = assignedTo
                /\ \/ \E p \in ps : p.project_id = projectId /\ p.owner_id = u.user_id
                   \/ \E c \in cs : /\ c.project_id = projectId /\ c.user_id = u.user_id
                                    /\ c.accepted_at # NULL}

\* POST /tickets: the inline access check, the assignee check when the body
\* names an assignee, INSERT INTO tickets, 201
TicketCreate(i, userId, projectId, assignedTo) ==
    /\ MwFree(i)
    /\ DocsInserted < MaxDocs
    /\ LET r == [IdleMw EXCEPT !.route = "ticket_create", !.userId = userId, !.projectId = projectId]
       IN IF AccessCheck(projects, collabs, projectId, userId) = {}
          THEN /\ mwResp' = MwRespond(r, 403, "Access denied to this project")
               /\ UNCHANGED <<tickets, nextTicketId>>
          ELSE IF assignedTo # NULL
                  /\ AssigneeCheck(users, projects, collabs, projectId, assignedTo) = {}
          THEN /\ mwResp' = MwRespond(r, 400, "Assigned user does not have access to this project")
               /\ UNCHANGED <<tickets, nextTicketId>>
          ELSE /\ tickets' = tickets \cup {[ticket_id |-> nextTicketId, project_id |-> projectId,
                                            created_by |-> userId, assigned_to |-> assignedTo]}
               /\ nextTicketId' = nextTicketId + 1
               /\ mwResp' = MwRespond(r, 201, "Ticket created successfully")
    /\ UNCHANGED <<projects, nextProjectId, collabs, nextCollabId, accepted, invitedAs, mw, notes, nextNoteId>>
    /\ UNCHANGED <<authVars, httpVars, rlVars>>

\* POST /notes: the inline access check, the parent check when the body names
\* a parent note, INSERT INTO notes, 201
NoteCreate(i, userId, projectId, parentNoteId) ==
    /\ MwFree(i)
    /\ DocsInserted < MaxDocs
    /\ LET r == [IdleMw EXCEPT !.route = "note_create", !.userId = userId, !.projectId = projectId]
       IN IF AccessCheck(projects, collabs, projectId, userId) = {}
          THEN /\ mwResp' = MwRespond(r, 403, "Access denied to this project")
               /\ UNCHANGED <<notes, nextNoteId>>
          ELSE IF parentNoteId # NULL
                  /\ {n \in notes : n.note_id = parentNoteId /\ n.project_id = projectId} = {}
          THEN /\ mwResp' = MwRespond(r, 400, "Parent note not found or belongs to different project")
               /\ UNCHANGED <<notes, nextNoteId>>
          ELSE /\ notes' = notes \cup {[note_id |-> nextNoteId, project_id |-> projectId,
                                        author_id |-> userId, parent_note_id |-> parentNoteId]}
               /\ nextNoteId' = nextNoteId + 1
               /\ mwResp' = MwRespond(r, 201, "Note created successfully")
    /\ UNCHANGED <<projects, nextProjectId, collabs, nextCollabId, accepted, invitedAs, mw, tickets, nextTicketId>>
    /\ UNCHANGED <<authVars, httpVars, rlVars>>

----------------------------------------------------------------------------
\* Credential store and request records of the auth routes (routes/api/auth.js)

NoUser == [user_id |-> 0, username |-> "", email |-> "", password_hash |-> <<"bcrypt", "">>]
NoPair == [accessToken |-> NoToken, refreshToken |-> NoToken]

bcryptHash(password) == <<"bcrypt", password>>
bcryptCompare(password, hash) == hash = <<"bcrypt", password>>

\* express-validator rules: isEmail() on the email field
isEmail(email) == email # "invalid-email"

IdleReq ==
    [op |-> "none", pc |-> "idle", bearer |-> FALSE, tok |-> NoToken,
     email |-> "", username |-> "", password |-> "",
     user |-> NoUser, decoded |-> NoToken, stored |-> NoToken,
     status |-> 0, message |-> "", out |-> NoPair, nexts |-> 0]

NoResp == IdleReq

Free(i) == req[i].pc = "idle"

\* history: the cache write of `token` under the key of userId is the latest one
Written(lw, userId, token) == {x \in lw : x[1] # userId} \cup {<<userId, token>>}

\* res.status(status).json({message, ...}) for the request with locals r:
\* the response with the request's token and the locals that decided it
Respond(r, status, message) ==
    [IdleReq EXCEPT !.op = r.op, !.pc = "done", !.status = status, !.message = message,
                    !.bearer = r.bearer, !.tok = r.tok, !.decoded = r.decoded,
                    !.stored = r.stored]

EnvConfigs ==
    {[JWT_SECRET |-> "access-secret", JWT_REFRESH_SECRET |-> "refresh-secret",
            JWT_EXPIRY |-> Unset, JWT_REFRESH_EXPIRY |-> Unset],
     [JWT_SECRET |-> Unset, JWT_REFRESH_SECRET |-> Unset,
      JWT_EXPIRY |-> Unset, JWT_REFRESH_EXPIRY |-> Unset]}

Forge(token) == [token EXCEPT !.sig = "attacker-secret"]

\* What a client can put in the refreshToken field of a request body: nothing,
\* garbage, a refresh token it was sent, an access token it was sent (wrong
\* kind), or a token it signed itself with a key of its own
RefreshInputs ==
    {NoToken, Malformed}
    \cup {p.refreshToken : p \in issued}
    \cup {p.accessToken : p \in issued}
    \cup {Forge(p.refreshToken) : p \in issued}

\* What a client can put in the Authorization header
BearerInputs ==
    {Malformed}
    \cup {p.accessToken : p \in issued}
    \cup {p.refreshToken : p \in issued}
    \cup {Forge(p.accessToken) : p \in issued}

----------------------------------------------------------------------------
\* POST /register

\* unique indexes of table users on email and on username
UsersUniqueViolation(email, username) ==
    \E u \in users : u.email = email \/ u.username = username

\* validation, then SELECT user_id FROM users WHERE email = $1 OR username = $2
RegisterCheck(i, username, email, password) ==
    /\ Free(i)
    /\ LET r == [IdleReq EXCEPT !.op = "register", !.username = username,
                                !.email = email, !.password = password]
           existingUser == {u \in users : u.email = email \/ u.username = username}
       IN IF ~isEmail(email)
          THEN /\ resp' = Respond(r, 400, "Validation failed")
               /\ UNCHANGED req
          ELSE IF existingUser # {}
          THEN /\ resp' = Respond(r, 409, "User with this email or username already exists")
               /\ UNCHANGED req
          ELSE /\ req' = [req EXCEPT ![i] = [r EXCEPT !.pc = "reg_insert"]]
               /\ resp' = NoResp
    /\ UNCHANGED <<env, now, ticks, users, nextUserId, redis, issued, lastWritten, loggedOut>>
    /\ UNCHANGED <<roleVars, httpVars, docVars, rlVars>>

\* bcrypt.hash, then INSERT INTO users ... RETURNING
RegisterInsert(i) ==
    /\ req[i].pc = "reg_insert"
    /\ IF UsersUniqueViolation(req[i].email, req[i].username)
       THEN /\ resp' = Respond(req[i], 500, "Failed to register user")
            /\ req' = [req EXCEPT ![i] = IdleReq]
            /\ UNCHANGED <<users, nextUserId>>
       ELSE LET row == [user_id |-> nextUserId, username |-> req[i].username,
                        email |-> req[i].email,
                        password_hash |-> bcryptHash(req[i].password)]
            IN /\ users' = users \cup {row}
               /\ nextUserId' = nextUserId + 1
               /\ req' = [req EXCEPT ![i] = [@ EXCEPT !.pc = "reg_store", !.user = row]]
               /\ resp' = NoResp
    /\ UNCHANGED <<env, now, ticks, redis, issued, lastWritten, loggedOut>>
    /\ UNCHANGED <<roleVars, httpVars, docVars, rlVars>>

\* generateTokens, setRedis(refresh_token:<id>), 201
RegisterStore(i) ==
    /\ req[i].pc = "reg_store"
    /\ LET user == req[i].user
           pair == generateTokenPair(env, user.user_id, user.email, user.username, now)
       IN /\ redis' = setRedis(redis, refreshKey(user.user_id), pair.refreshToken,
                               REFRESH_TOKEN_EXPIRY, now)
          /\ issued' = issued \cup {pair}
          /\ lastWritten' = Written(lastWritten, user.user_id, pair.refreshToken)
          /\ loggedOut' = loggedOut \ {user.user_id}
          /\ resp' = [Respond(req[i], 201, "User registered successfully") EXCEPT !.out = pair]
          /\ req' = [req EXCEPT ![i] = IdleReq]
    /\ UNCHANGED <<env, now, ticks, users, nextUserId>>
    /\ UNCHANGED <<roleVars, httpVars, docVars, rlVars>>

----------------------------------------------------------------------------
\* POST /login

LoginDecision_revealing(us, email, password) ==
    LET rows == {u \in us : u.email = email}
        user == IF rows = {} THEN NoUser ELSE CHOOSE u \in rows : TRUE
    IN IF ~isEmail(email) \/ password = ""
       THEN [status |-> 400, message |-> "Validation failed", user |-> NoUser]
       ELSE IF rows = {}
       THEN [status |-> 404, message |-> "User not found", user |-> NoUser]
       ELSE IF ~bcryptCompare(password, user.password_hash)
       THEN [status |-> 401, message |-> "Invalid email or password", user |-> NoUser]
       ELSE [status |-> 0, message |-> "", user |-> user]

\* validation, SELECT ... FROM users WHERE email = $1, bcrypt.compare: the
\* response, or status 0 with the user row when the credentials are right
LoginDecision(us, email, password) ==
    LET rows == {u \in us : u.email = email}
        user == IF rows = {} THEN NoUser ELSE CHOOSE u \in rows : TRUE
    IN IF ~isEmail(email) \/ password = ""
       THEN [status |-> 400, message |-> "Validation failed", user |-> NoUser]
       ELSE IF rows = {}
       THEN [status |-> 401, message |-> "Invalid email or password", user |-> NoUser]
       ELSE IF ~bcryptCompare(password, user.password_hash)
       THEN [status |-> 401, message |-> "Invalid email or password", user |-> NoUser]
       ELSE [status |-> 0, message |-> "", user |-> user]

\* POST /login up to the token generation
LoginQuery(i, email, password) ==
    /\ Free(i)
    /\ LET r == [IdleReq EXCEPT !.op = "login", !.email = email, !.password = password]
           d == LoginDecision(users, email, password)
       IN IF d.status # 0
          THEN /\ resp' = Respond(r, d.status, d.message)
               /\ UNCHANGED req
          ELSE /\ req' = [req EXCEPT ![i] = [r EXCEPT !.pc = "login_store", !.user = d.user]]
               /\ resp' = NoResp
    /\ UNCHANGED <<env, now, ticks, users, nextUserId, redis, issued, lastWritten, loggedOut>>
    /\ UNCHANGED <<roleVars, httpVars, docVars, rlVars>>

\* generateTokens, setRedis(refresh_token:<id>)
LoginStore(i) ==
    /\ req[i].pc = "login_store"
    /\ LET user == req[i].user
           pair == generateTokenPair(env, user.user_id, user.email, user.username, now)
       IN /\ redis' = setRedis(redis, refreshKey(user.user_id), pair.refreshToken,
                               REFRESH_TOKEN_EXPIRY, now)
          /\ lastWritten' = Written(lastWritten, user.user_id, pair.refreshToken)
          /\ loggedOut' = loggedOut \ {user.user_id}
          /\ req' = [req EXCEPT ![i] = [@ EXCEPT !.pc = "login_update", !.out = pair]]
          /\ resp' = NoResp
    /\ UNCHANGED <<env, now, ticks, users, nextUserId, issued>>
    /\ UNCHANGED <<roleVars, httpVars, docVars, rlVars>>

\* UPDATE users SET last_login = NOW() (a column no handler reads, and that the
\* users rows of the model do not carry), then 200 with the token pair
LoginUpdate(i) ==
    /\ req[i].pc = "login_update"
    /\ UNCHANGED users
    /\ issued' = issued \cup {req[i].out}
    /\ resp' = [Respond(req[i], 200, "Login successful") EXCEPT !.out = req[i].out]
    /\ req' = [req EXCEPT ![i] = IdleReq]
    /\ UNCHANGED <<env, now, ticks, nextUserId, redis, lastWritten, loggedOut>>
    /\ UNCHANGED <<roleVars, httpVars, docVars, rlVars>>

----------------------------------------------------------------------------
\* POST /logout

\* header check, jwt.verify(token, process.env.JWT_SECRET), deleteRedis, 200;
\* any exception is answered 500
Logout(i, bearer, token) ==
    /\ Free(i)
    /\ LET r == [IdleReq EXCEPT !.op = "logout", !.bearer = bearer, !.tok = token]
           v == jwtVerify(token, env.JWT_SECRET, now)
       IN IF ~bearer
          THEN /\ resp' = Respond(r, 401, "No token provided")
               /\ UNCHANGED <<redis, lastWritten, loggedOut>>
          ELSE IF ~v.ok
          THEN /\ resp' = Respond(r, 500, "Failed to logout")
               /\ UNCHANGED <<redis, lastWritten, loggedOut>>
          ELSE /\ redis' = deleteRedis(redis, refreshKey(v.decoded.userId))
               /\ loggedOut' = loggedOut \cup {v.decoded.userId}
               /\ resp' = [Respond(r, 200, "Logout successful") EXCEPT !.decoded = v.decoded]
               /\ UNCHANGED lastWritten
    /\ UNCHANGED <<env, now, ticks, users, nextUserId, issued, req>>
    /\ UNCHANGED <<roleVars, httpVars, docVars, rlVars>>

----------------------------------------------------------------------------
\* POST /refresh

RefreshTokenMatches_presentOnly(storedToken, refreshToken) ==
    ~(storedToken = NoToken)

\* the storedToken test of the refresh route
RefreshTokenMatches(storedToken, refreshToken) ==
    ~(storedToken = NoToken \/ storedToken # refreshToken)

\* body check, jwt.verify(refreshToken, process.env.JWT_REFRESH_SECRET),
\* getRedis and comparison: the response, or "pass" with the locals
RefreshOutcome(e, r, refreshToken, t) ==
    LET v == jwtVerify(refreshToken, e.JWT_REFRESH_SECRET, t)
        storedToken == getRedis(r, refreshKey(v.decoded.userId), t)
    IN IF refreshToken = NoToken
       THEN [status |-> 400, message |-> "Refresh token is required",
             decoded |-> NoToken, stored |-> NoToken]
       ELSE IF ~v.ok
       THEN [status |-> 401, message |-> "Invalid or expired refresh token",
             decoded |-> NoToken, stored |-> NoToken]
       ELSE IF ~RefreshTokenMatches(storedToken, refreshToken)
       THEN [status |-> 401, message |-> "Invalid or expired refresh token",
             decoded |-> v.decoded, stored |-> storedToken]
       ELSE [status |-> 0, message |-> "pass", decoded |-> v.decoded, stored |-> storedToken]

\* a refresh route that drops the user's cache entry when it rejects a token
RefreshGet_evicts(i, refreshToken) ==
    /\ Free(i)
    /\ LET o == RefreshOutcome(env, redis, refreshToken, now)
           r == [IdleReq EXCEPT !.op = "refresh", !.tok = refreshToken,
                                !.decoded = o.decoded, !.stored = o.stored]
       IN IF o.status # 0
          THEN /\ resp' = Respond(r, o.status, o.message)
               /\ redis' = IF o.decoded = NoToken THEN redis
                           ELSE deleteRedis(redis, refreshKey(o.decoded.userId))
               /\ UNCHANGED req
          ELSE /\ req' = [req EXCEPT ![i] = [r EXCEPT !.pc = "refresh_store"]]
               /\ resp' = NoResp
               /\ UNCHANGED redis
    /\ UNCHANGED <<env, now, ticks, users, nextUserId, issued, lastWritten, loggedOut>>
    /\ UNCHANGED <<roleVars, httpVars, docVars, rlVars>>

RefreshGet(i, refreshToken) ==
    /\ Free(i)
    /\ LET o == RefreshOutcome(env, redis, refreshToken, now)
           r == [IdleReq EXCEPT !.op = "refresh", !.tok = refreshToken,
                                !.decoded = o.decoded, !.stored = o.stored]
       IN IF o.status # 0
          THEN /\ resp' = Respond(r, o.status, o.message)
               /\ UNCHANGED req
          ELSE /\ req' = [req EXCEPT ![i] = [r EXCEPT !.pc = "refresh_store"]]
               /\ resp' = NoResp
    /\ UNCHANGED <<env, now, ticks, users, nextUserId, redis, issued, lastWritten, loggedOut>>
    /\ UNCHANGED <<roleVars, httpVars, docVars, rlVars>>

\* generateTokens from the decoded claims, setRedis, 200
RefreshStore(i) ==
    /\ req[i].pc = "refresh_store"
    /\ LET decoded == req[i].decoded
           pair == generateTokenPair(env, decoded.userId, decoded.email, decoded.username, now)
       IN /\ redis' = setRedis(redis, refreshKey(decoded.userId), pair.refreshToken,
                               REFRESH_TOKEN_EXPIRY, now)
          /\ issued' = issued \cup {pair}
          /\ lastWritten' = Written(lastWritten, decoded.userId, pair.refreshToken)
          /\ loggedOut' = loggedOut \ {decoded.userId}
          /\ resp' = [Respond(req[i], 200, "Token refreshed successfully") EXCEPT !.out = pair]
          /\ req' = [req EXCEPT ![i] = IdleReq]
    /\ UNCHANGED <<env, now, ticks, users, nextUserId>>
    /\ UNCHANGED <<roleVars, httpVars, docVars, rlVars>>

----------------------------------------------------------------------------
\* Time: the clock advances by a second, by an access-token lifetime or by a
\* refresh-token lifetime; Redis drops the keys whose TTL has run out.

TickSteps == {1, AccessExpiresIn, RefreshExpiresIn}

Tick(d) ==
    /\ ticks < MaxTicks
    /\ now' = now + d
    /\ ticks' = ticks + 1
    /\ redis' = Live(redis, now + d)
    /\ resp' = NoResp
    /\ UNCHANGED <<env, users, nextUserId, issued, lastWritten, loggedOut, req>>
    /\ UNCHANGED <<roleVars, httpVars, docVars, rlVars>>

----------------------------------------------------------------------------
\* Collaborator routes (routes/api/collaborators.js)

\* the editor check without its accepted_at condition
EditorCheck_pending(cs, projectId, userId) ==
    {c \in cs : c.project_id = projectId /\ c.user_id = userId /\ c.role = "editor"}

\* SELECT role FROM project_collaborators WHERE project_id = $1 AND user_id = $2
\*   AND role = 'editor' AND accepted_at IS NOT NULL
EditorCheck(cs, projectId, userId) ==
    {c \in cs : c.project_id = projectId /\ c.user_id = userId
                /\ c.role = "editor" /\ c.accepted_at # NULL}

CollabById(cs, collabId) == {c \in cs : c.collaboration_id = collabId}

\* POST /invite: validation, then SELECT owner_id FROM projects
InviteProject(i, userId, projectId, email, role) ==
    /\ MwFree(i)
    /\ LET r == [IdleMw EXCEPT !.route = "invite", !.userId = userId, !.projectId = projectId,
                               !.email = email, !.role = role]
           projectCheck == OwnerRows(projects, projectId)
           ownerId == IF projectCheck = {} THEN 0 ELSE CHOOSE o \in projectCheck : TRUE
       IN IF ~isEmail(email) \/ role \notin {"editor", "viewer"} \/ projectId = NoProject
          THEN /\ mwResp' = MwRespond(r, 400, "Validation failed")
               /\ UNCHANGED mw
          ELSE IF projectCheck = {}
          THEN /\ mwResp' = MwRespond(r, 404, "Project not found")
               /\ UNCHANGED mw
          ELSE /\ mw' = [mw EXCEPT ![i] =
                            [r EXCEPT !.ownerId = ownerId,
                                      !.pc = IF ownerId = userId THEN "inv_user" ELSE "inv_editor"]]
               /\ mwResp' = NoMwResp
    /\ UNCHANGED <<projects, nextProjectId, collabs, nextCollabId, accepted, invitedAs>>
    /\ UNCHANGED <<authVars, httpVars, docVars, rlVars>>

\* the editor check of a caller who is not the owner
InviteEditor(i) ==
    /\ mw[i].pc = "inv_editor"
    /\ IF EditorCheck(collabs, mw[i].projectId, mw[i].userId) = {}
       THEN /\ mwResp' = MwRespond(mw[i], 403,
                                   "Only project owners and editors can invite collaborators")
            /\ mw' = [mw EXCEPT ![i] = IdleMw]
       ELSE /\ mw' = [mw EXCEPT ![i] = [@ EXCEPT !.pc = "inv_user"]]
            /\ mwResp' = NoMwResp
    /\ UNCHANGED <<projects, nextProjectId, collabs, nextCollabId, accepted, invitedAs>>
    /\ UNCHANGED <<authVars, httpVars, docVars, rlVars>>

\* SELECT user_id, username, email FROM users WHERE email = $1
InviteUser(i) ==
    /\ mw[i].pc = "inv_user"
    /\ LET userResult == {u \in users : u.email = mw[i].email}
       IN IF userResult = {}
          THEN /\ mwResp' = MwRespond(mw[i], 404, "User with this email not found")
               /\ mw' = [mw EXCEPT ![i] = IdleMw]
          ELSE /\ mw' = [mw EXCEPT ![i] =
                            [@ EXCEPT !.pc = "inv_existing",
                                      !.invitedId = (CHOOSE u \in userResult : TRUE).user_id]]
               /\ mwResp' = NoMwResp
    /\ UNCHANGED <<projects, nextProjectId, collabs, nextCollabId, accepted, invitedAs>>
    /\ UNCHANGED <<authVars, httpVars, docVars, rlVars>>

\* the existing-collaborator query, then the owner test on the owner_id read
\* by the first query
InviteExisting(i) ==
    /\ mw[i].pc = "inv_existing"
    /\ LET existingCollab == {c \in collabs : c.project_id = mw[i].projectId
                                              /\ c.user_id = mw[i].invitedId}
       IN IF existingCollab # {}
          THEN /\ mwResp' = MwRespond(mw[i], 409,
                                      "User is already a collaborator on this project")
               /\ mw' = [mw EXCEPT ![i] = IdleMw]
          ELSE IF mw[i].invitedId = mw[i].ownerId
          THEN /\ mwResp' = MwRespond(mw[i], 400,
                                      "Project owner is automatically a collaborator")
               /\ mw' = [mw EXCEPT ![i] = IdleMw]
          ELSE /\ mw' = [mw EXCEPT ![i] = [@ EXCEPT !.pc = "inv_insert"]]
               /\ mwResp' = NoMwResp
    /\ UNCHANGED <<projects, nextProjectId, collabs, nextCollabId, accepted, invitedAs>>
    /\ UNCHANGED <<authVars, httpVars, docVars, rlVars>>

\* the foreign key of project_collaborators.project_id (the project delete
\* relies on its cascade)
CollabForeignKeyViolation(projectId) == OwnerRows(projects, projectId) = {}

\* INSERT INTO project_collaborators (project_id, user_id, role, permissions):
\* accepted_at stays NULL
InviteInsert(i) ==
    /\ mw[i].pc = "inv_insert"
    /\ RowsInserted < MaxRows
    /\ IF CollabForeignKeyViolation(mw[i].projectId)
       THEN /\ mwResp' = MwRespond(mw[i], 500, "Failed to invite collaborator")
            /\ UNCHANGED <<collabs, nextCollabId, invitedAs>>
       ELSE LET row == [collaboration_id |-> nextCollabId, project_id |-> mw[i].projectId,
                        user_id |-> mw[i].invitedId, role |-> mw[i].role,
                        accepted_at |-> NULL]
            IN /\ collabs' = collabs \cup {row}
               /\ nextCollabId' = nextCollabId + 1
               /\ invitedAs' = invitedAs \cup {<<row.collaboration_id, row.role>>}
               /\ mwResp' = [MwRespond(mw[i], 201, "Collaborator invited successfully")
                                EXCEPT !.collabId = row.collaboration_id]
    /\ mw' = [mw EXCEPT ![i] = IdleMw]
    /\ UNCHANGED <<projects, nextProjectId, accepted>>
    /\ UNCHANGED <<authVars, httpVars, docVars, rlVars>>

\* POST /:collaborationId/accept: the invitation must exist, be the caller's
\* and be pending
AcceptCheck(i, userId, collabId) ==
    /\ MwFree(i)
    /\ LET r == [IdleMw EXCEPT !.route = "accept", !.userId = userId, !.collabId = collabId]
           collabCheck == {c \in collabs : c.collaboration_id = collabId /\ c.user_id = userId}
           collab == IF collabCheck = {} THEN NoCollab ELSE CHOOSE c \in collabCheck : TRUE
       IN IF collabCheck = {}
          THEN /\ mwResp' = MwRespond(r, 404, "Collaboration invitation not found")
               /\ UNCHANGED mw
          ELSE IF collab.accepted_at # NULL
          THEN /\ mwResp' = MwRespond([r EXCEPT !.collab = collab], 400,
                                      "Invitation already accepted")
               /\ UNCHANGED mw
          ELSE /\ mw' = [mw EXCEPT ![i] = [r EXCEPT !.pc = "acc_update", !.collab = collab,
                                                    !.projectId = collab.project_id]]
               /\ mwResp' = NoMwResp
    /\ UNCHANGED <<projects, nextProjectId, collabs, nextCollabId, accepted, invitedAs>>
    /\ UNCHANGED <<authVars, httpVars, docVars, rlVars>>

AcceptUpdate_noWrite(i) ==
    /\ mw[i].pc = "acc_update"
    /\ accepted' = accepted \cup {mw[i].collabId}
    /\ mwResp' = MwRespond(mw[i], 200, "Collaboration invitation accepted")
    /\ mw' = [mw EXCEPT ![i] = IdleMw]
    /\ UNCHANGED <<projects, nextProjectId, collabs, nextCollabId, invitedAs>>
    /\ UNCHANGED <<authVars, httpVars, docVars, rlVars>>

\* UPDATE project_collaborators SET accepted_at = NOW() WHERE collaboration_id = $1
AcceptUpdate(i) ==
    /\ mw[i].pc = "acc_update"
    /\ collabs' = {IF c.collaboration_id = mw[i].collabId THEN [c EXCEPT !.accepted_at = now]
                   ELSE c : c \in collabs}
    /\ accepted' = accepted \cup {mw[i].collabId}
    /\ mwResp' = MwRespond(mw[i], 200, "Collaboration invitation accepted")
    /\ mw' = [mw EXCEPT ![i] = IdleMw]
    /\ UNCHANGED <<projects, nextProjectId, nextCollabId, invitedAs>>
    /\ UNCHANGED <<authVars, httpVars, docVars, rlVars>>

\* PUT /:collaborationId: validation, then the collaboration joined with its project
CollabUpdateCheck(i, userId, collabId, role, perms) ==
    /\ MwFree(i)
    /\ LET r == [IdleMw EXCEPT !.route = "collab_update", !.userId = userId,
                               !.collabId = collabId, !.role = role, !.perms = perms]
           collabCheck == CollabById(collabs, collabId)
           collab == IF collabCheck = {} THEN NoCollab ELSE CHOOSE c \in collabCheck : TRUE
           ownerRows == OwnerRows(projects, collab.project_id)
           ownerId == IF ownerRows = {} THEN 0 ELSE CHOOSE o \in ownerRows : TRUE
       IN IF role \notin {"", "editor", "viewer"}
          THEN /\ mwResp' = MwRespond(r, 400, "Validation failed")
               /\ UNCHANGED mw
          ELSE IF collabCheck = {}
          THEN /\ mwResp' = MwRespond(r, 404, "Collaboration not found")
               /\ UNCHANGED mw
          ELSE /\ mw' = [mw EXCEPT ![i] =
                            [r EXCEPT !.collab = collab, !.projectId = collab.project_id,
                                      !.ownerId = ownerId,
                                      !.pc = IF ownerId = userId THEN "upd_update"
                                             ELSE "upd_editor"]]
               /\ mwResp' = NoMwResp
    /\ UNCHANGED <<projects, nextProjectId, collabs, nextCollabId, accepted, invitedAs>>
    /\ UNCHANGED <<authVars, httpVars, docVars, rlVars>>

CollabUpdateEditor(i) ==
    /\ mw[i].pc = "upd_editor"
    /\ IF EditorCheck(collabs, mw[i].projectId, mw[i].userId) = {}
       THEN /\ mwResp' = MwRespond(mw[i], 403,
                                   "Only project owners and editors can update collaborators")
            /\ mw' = [mw EXCEPT ![i] = IdleMw]
       ELSE /\ mw' = [mw EXCEPT ![i] = [@ EXCEPT !.pc = "upd_update"]]
            /\ mwResp' = NoMwResp
    /\ UNCHANGED <<projects, nextProjectId, collabs, nextCollabId, accepted, invitedAs>>
    /\ UNCHANGED <<authVars, httpVars, docVars, rlVars>>

\* the dynamic UPDATE: 400 when neither role nor permissions was sent
CollabUpdateWrite(i) ==
    /\ mw[i].pc = "upd_update"
    /\ IF mw[i].role = "" /\ ~mw[i].perms
       THEN /\ mwResp' = MwRespond(mw[i], 400, "No fields to update")
            /\ UNCHANGED collabs
       ELSE /\ collabs' = {IF c.collaboration_id = mw[i].collabId /\ mw[i].role # ""
                           THEN [c EXCEPT !.role = mw[i].role] ELSE c : c \in collabs}
            /\ mwResp' = MwRespond(mw[i], 200, "Collaborator updated successfully")
    /\ mw' = [mw EXCEPT ![i] = IdleMw]
    /\ UNCHANGED <<projects, nextProjectId, nextCollabId, accepted, invitedAs>>
    /\ UNCHANGED <<authVars, httpVars, docVars, rlVars>>

\* DELETE /:collaborationId: the collaboration joined with its project
CollabRemoveCheck(i, userId, collabId) ==
    /\ MwFree(i)
    /\ LET r == [IdleMw EXCEPT !.route = "collab_remove", !.userId = userId,
                               !.collabId = collabId]
           collabCheck == CollabById(collabs, collabId)
           collab == IF collabCheck = {} THEN NoCollab ELSE CHOOSE c \in collabCheck : TRUE
           ownerRows == OwnerRows(projects, collab.project_id)
           ownerId == IF ownerRows = {} THEN 0 ELSE CHOOSE o \in ownerRows : TRUE
           isSelf == collab.user_id = userId
           isOwner == ownerId = userId
       IN IF collabCheck = {}
          THEN /\ mwResp' = MwRespond(r, 404, "Collaboration not found")
               /\ UNCHANGED mw
          ELSE /\ mw' = [mw EXCEPT ![i] =
                            [r EXCEPT !.collab = collab, !.projectId = collab.project_id,
                                      !.ownerId = ownerId,
                                      !.pc = IF ~isSelf /\ ~isOwner THEN "rem_editor"
                                             ELSE "rem_delete"]]
               /\ mwResp' = NoMwResp
    /\ UNCHANGED <<projects, nextProjectId, collabs, nextCollabId, accepted, invitedAs>>
    /\ UNCHANGED <<authVars, httpVars, docVars, rlVars>>

CollabRemoveEditor(i) ==
    /\ mw[i].pc = "rem_editor"
    /\ IF EditorCheck(collabs, mw[i].projectId, mw[i].userId) = {}
       THEN /\ mwResp' = MwRespond(mw[i], 403, "Insufficient permissions to remove collaborator")
            /\ mw' = [mw EXCEPT ![i] = IdleMw]
       ELSE /\ mw' = [mw EXCEPT ![i] = [@ EXCEPT !.pc = "rem_delete"]]
            /\ mwResp' = NoMwResp
    /\ UNCHANGED <<projects, nextProjectId, collabs, nextCollabId, accepted, invitedAs>>
    /\ UNCHANGED <<authVars, httpVars, docVars, rlVars>>

\* DELETE FROM project_collaborators WHERE collaboration_id = $1
CollabRemoveDelete(i) ==
    /\ mw[i].pc = "rem_delete"
    /\ collabs' = {c \in collabs : c.collaboration_id # mw[i].collabId}
    /\ mwResp' = MwRespond(mw[i], 200, "Collaborator removed successfully")
    /\ mw' = [mw EXCEPT ![i] = IdleMw]
    /\ UNCHANGED <<projects, nextProjectId, nextCollabId, accepted, invitedAs>>
    /\ UNCHANGED <<authVars, httpVars, docVars, rlVars>>

----------------------------------------------------------------------------
\* Ticket update and delete (routes/api/tickets.js)

\* SELECT t.*, p.owner_id FROM tickets t LEFT JOIN projects p ... WHERE t.ticket_id = $1
TicketById(ts, ticketId) == {t \in ts : t.ticket_id = ticketId}

\* PUT /tickets/:id: the ticket joined with its project, then the edit-access
\* test: owner, creator or assignee, or else the editor query
TicketUpdateCheck(i, userId, ticketId, hasTitle, assign) ==
    /\ MwFree(i)
    /\ LET r == [IdleMw EXCEPT !.route = "ticket_update", !.userId = userId,
                               !.ticketId = ticketId, !.hasTitle = hasTitle, !.assign = assign]
           ticketCheck == TicketById(tickets, ticketId)
           currentTicket == CHOOSE t \in ticketCheck : TRUE
           ownerRows == OwnerRows(projects, currentTicket.project_id)
           ownerId == IF ownerRows = {} THEN NULL ELSE CHOOSE o \in ownerRows : TRUE
           isOwner == ownerId = userId
           isCreator == currentTicket.created_by = userId
           isAssignee == currentTicket.assigned_to = userId
       IN IF ticketCheck = {}
          THEN /\ mwResp' = MwRespond(r, 404, "Ticket not found")
               /\ UNCHANGED mw
          ELSE /\ mw' = [mw EXCEPT ![i] =
                            [r EXCEPT !.projectId = currentTicket.project_id,
                                      !.ownerId = ownerId,
                                      !.pc = IF ~isOwner /\ ~isCreator /\ ~isAssignee
                                             THEN "tku_editor" ELSE "tku_update"]]
               /\ mwResp' = NoMwResp
    /\ UNCHANGED <<projects, nextProjectId, collabs, nextCollabId, accepted, invitedAs>>
    /\ UNCHANGED <<authVars, httpVars, docVars, rlVars>>

TicketUpdateEditor(i) ==
    /\ mw[i].pc = "tku_editor"
    /\ IF EditorCheck(collabs, mw[i].projectId, mw[i].userId) = {}
       THEN /\ mwResp' = MwRespond(mw[i], 403, "Insufficient permissions to update this ticket")
            /\ mw' = [mw EXCEPT ![i] = IdleMw]
       ELSE /\ mw' = [mw EXCEPT ![i] = [@ EXCEPT !.pc = "tku_update"]]
            /\ mwResp' = NoMwResp
    /\ UNCHANGED <<projects, nextProjectId, collabs, nextCollabId, accepted, invitedAs>>
    /\ UNCHANGED <<authVars, httpVars, docVars, rlVars>>

\* the dynamic UPDATE of the fields the body names (assigned_to is written as
\* sent), 400 when it names none; the activity row is not modelled
TicketUpdateWrite(i) ==
    /\ mw[i].pc = "tku_update"
    /\ IF ~mw[i].hasTitle /\ ~mw[i].assign.sent
       THEN /\ mwResp' = MwRespond(mw[i], 400, "No fields to update")
            /\ UNCHANGED tickets
       ELSE /\ tickets' = {IF t.ticket_id = mw[i].ticketId /\ mw[i].assign.sent
                           THEN [t EXCEPT !.assigned_to = mw[i].assign.value]
                           ELSE t : t \in tickets}
            /\ mwResp' = [MwRespond(mw[i], 200, "Ticket updated successfully")
                             EXCEPT !.ticketId = mw[i].ticketId]
    /\ mw' = [mw EXCEPT ![i] = IdleMw]
    /\ UNCHANGED <<projects, nextProjectId, collabs, nextCollabId, accepted, invitedAs>>
    /\ UNCHANGED <<nextTicketId, notes, nextNoteId>>
    /\ UNCHANGED <<authVars, httpVars, rlVars>>

\* DELETE /tickets/:id: the ticket joined with its project, then owner or
\* creator, or else the editor query
TicketDeleteCheck(i, userId, ticketId) ==
    /\ MwFree(i)
    /\ LET r == [IdleMw EXCEPT !.route = "ticket_delete", !.userId = userId,
                               !.ticketId = ticketId]
           ticketCheck == TicketById(tickets, ticketId)
           ticket == CHOOSE t \in ticketCheck : TRUE
           ownerRows == OwnerRows(projects, ticket.project_id)
           ownerId == IF ownerRows = {} THEN NULL ELSE CHOOSE o \in ownerRows : TRUE
           isOwner == ownerId = userId
           isCreator == ticket.created_by = userId
       IN IF ticketCheck = {}
          THEN /\ mwResp' = MwRespond(r, 404, "Ticket not found")
               /\ UNCHANGED mw
          ELSE /\ mw' = [mw EXCEPT ![i] =
                            [r EXCEPT !.projectId = ticket.project_id, !.ownerId = ownerId,
                                      !.pc = IF ~isOwner /\ ~isCreator
                                             THEN "tkd_editor" ELSE "tkd_delete"]]
               /\ mwResp' = NoMwResp
    /\ UNCHANGED <<projects, nextProjectId, collabs, nextCollabId, accepted, invitedAs>>
    /\ UNCHANGED <<authVars, httpVars, docVars, rlVars>>

TicketDeleteEditor(i) ==
    /\ mw[i].pc = "tkd_editor"
    /\ IF EditorCheck(collabs, mw[i].projectId, mw[i].userId) = {}
       THEN /\ mwResp' = MwRespond(mw[i], 403, "Insufficient permissions to delete this ticket")
            /\ mw' = [mw EXCEPT ![i] = IdleMw]
       ELSE /\ mw' = [mw EXCEPT ![i] = [@ EXCEPT !.pc = "tkd_delete"]]
            /\ mwResp' = NoMwResp
    /\ UNCHANGED <<projects, nextProjectId, collabs, nextCollabId, accepted, invitedAs>>
    /\ UNCHANGED <<authVars, httpVars, docVars, rlVars>>

\* DELETE FROM tickets WHERE ticket_id = $1
TicketDeleteWrite(i) ==
    /\ mw[i].pc = "tkd_delete"
    /\ tickets' = {t \in tickets : t.ticket_id # mw[i].ticketId}
    /\ mwResp' = [MwRespond(mw[i], 200, "Ticket deleted successfully")
                     EXCEPT !.ticketId = mw[i].ticketId]
    /\ mw' = [mw EXCEPT ![i] = IdleMw]
    /\ UNCHANGED <<projects, nextProjectId, collabs, nextCollabId, accepted, invitedAs>>
    /\ UNCHANGED <<nextTicketId, notes, nextNoteId>>
    /\ UNCHANGED <<authVars, httpVars, rlVars>>

----------------------------------------------------------------------------
\* CSRF middleware (middleware/csrf.js) and the server's middleware chain
\* (server.js)

\* a header, cookie, body or query value: undefined, or a string
Undefined == [defined |-> FALSE, text |-> ""]
Str(s) == [defined |-> TRUE, text |-> s]

\* JavaScript truthiness of such a value: undefined and '' are falsy
Truthy(v) == v.defined /\ v.text # ""

\* a || b
OrElse(a, b) == IF Truthy(a) THEN a ELSE b

CSRF_SECRET == "default-csrf-secret-change-in-production"

\* the values crypto.randomBytes(32).toString('hex') can return
GeneratedTokens == {"a1", "b2"}

\* HMAC-SHA256 of the token under CSRF_SECRET, as a hex string
signToken(token) == "hmac(" \o CSRF_SECRET \o "," \o token \o ")"

\* crypto.timingSafeEqual throws on buffers of different length; both that and
\* a false answer end in the caller's 403
verifyToken(token, signature) == signature = signToken(token)

generateEncryptedToken(token) == token \o "." \o signToken(token)

\* position of the first '.' of s at or after i, 0 when there is none
RECURSIVE IndexOfDot(_, _)
IndexOfDot(s, i) ==
    IF i > Len(s) THEN 0
    ELSE IF SubSeq(s, i, i) = "." THEN i
    ELSE IndexOfDot(s, i + 1)

\* const [tokenValue, signature] = token.split('.')
SplitToken(s) ==
    LET d1 == IndexOfDot(s, 1)
        d2 == IF d1 = 0 THEN 0 ELSE IndexOfDot(s, d1 + 1)
    IN IF d1 = 0 THEN [tokenValue |-> Str(s), signature |-> Undefined]
       ELSE [tokenValue |-> Str(SubSeq(s, 1, d1 - 1)),
             signature |-> Str(SubSeq(s, d1 + 1, IF d2 = 0 THEN Len(s) ELSE d2 - 1))]

safeMethods_getOnly == {"GET"}

safeMethods == {"GET", "HEAD", "OPTIONS"}

\* authHeader && authHeader.startsWith('Bearer ')
HasBearer(authHeader) ==
    /\ Truthy(authHeader)
    /\ Len(authHeader.text) >= 7
    /\ SubSeq(authHeader.text, 1, 7) = "Bearer "

\* a request as the middleware sees it
IdleHttp ==
    [pc |-> "idle", method |-> "GET", path |-> "/", authorization |-> Undefined,
     cookie |-> Undefined, header |-> Undefined, bodyCsrf |-> Undefined,
     queryCsrf |-> Undefined, passed |-> <<>>]

\* what a middleware did: next() calls, or the response it sent
Passed == [by |-> "", nexts |-> 1, status |-> 0, code |-> "", message |-> "", setCookie |-> Undefined]
Blocked(status, code, message) ==
    [by |-> "", nexts |-> 0, status |-> status, code |-> code, message |-> message,
     setCookie |-> Undefined]
NoHttpResp == [Passed EXCEPT !.nexts = 0]

HttpIdle ==
    /\ http = IdleHttp
    /\ httpResp = NoHttpResp

csrfProtection_presenceOnly(r) ==
    IF r.method \in safeMethods THEN Passed
    ELSE IF HasBearer(r.authorization) THEN Passed
    ELSE IF ~Truthy(r.cookie) \/ ~Truthy(r.header)
    THEN Blocked(403, "CSRF_MISSING", "CSRF token missing")
    ELSE Passed

csrfProtection(r) ==
    IF r.method \in safeMethods THEN Passed
    ELSE IF HasBearer(r.authorization) THEN Passed
    ELSE IF ~Truthy(r.cookie) \/ ~Truthy(r.header)
    THEN Blocked(403, "CSRF_MISSING", "CSRF token missing")
    ELSE IF r.cookie # r.header
    THEN Blocked(403, "CSRF_INVALID", "CSRF token mismatch")
    ELSE Passed

csrfProtectionEncrypted(r) ==
    IF r.method \in safeMethods THEN Passed
    ELSE IF HasBearer(r.authorization) THEN Passed
    ELSE LET token == OrElse(r.header, OrElse(r.bodyCsrf, r.queryCsrf))
             parts == SplitToken(token.text)
         IN IF ~Truthy(token)
            THEN Blocked(403, "CSRF_MISSING", "CSRF token required")
            ELSE IF ~Truthy(parts.tokenValue) \/ ~Truthy(parts.signature)
            THEN Blocked(403, "CSRF_INVALID", "Invalid CSRF token")
            ELSE IF ~verifyToken(parts.tokenValue.text, parts.signature.text)
            THEN Blocked(403, "CSRF_INVALID", "Invalid CSRF token")
            ELSE Passed

\* a call of csrfProtection(req, res, next)
csrfProtectionCall ==
    /\ http.pc = "received"
    /\ httpResp' = [csrfProtection(http) EXCEPT !.by = "csrfProtection"]
    /\ http' = [http EXCEPT !.pc = "done"]
    /\ UNCHANGED <<authVars, roleVars, docVars, rlVars>>

\* a call of csrfProtectionEncrypted(req, res, next)
csrfProtectionEncryptedCall ==
    /\ http.pc = "received"
    /\ httpResp' = [csrfProtectionEncrypted(http) EXCEPT !.by = "csrfProtectionEncrypted"]
    /\ http' = [http EXCEPT !.pc = "done"]
    /\ UNCHANGED <<authVars, roleVars, docVars, rlVars>>

\* server.js, app.use(setCsrfToken) after the parsers: a request without the
\* cookie is given a fresh one on the response; always next()
setCsrfToken(token) ==
    /\ http.pc = "received"
    /\ httpResp' = [Passed EXCEPT !.by = "setCsrfToken",
                                  !.setCookie = IF Truthy(http.cookie) THEN Undefined
                                                ELSE Str(token)]
    /\ http' = [http EXCEPT !.pc = "routes", !.passed = Append(@, "setCsrfToken")]
    /\ UNCHANGED <<authVars, roleVars, docVars, rlVars>>

IsApiPath(path) == Len(path) >= 4 /\ SubSeq(path, 1, 4) = "/api"

\* server.js, the routes in mount order: GET /api/csrf-token answers with the
\* token; everything else under /api goes to the limiter and the API router;
\* any other path falls to the 404 handler
ServerRoutes ==
    /\ http.pc = "routes"
    /\ IF http.method = "GET" /\ http.path = "/api/csrf-token"
       THEN /\ httpResp' = [Passed EXCEPT !.by = "getCsrfToken", !.nexts = 0, !.status = 200,
                                          !.setCookie = http.cookie]
            /\ http' = [http EXCEPT !.pc = "done"]
       ELSE IF IsApiPath(http.path)
       THEN /\ httpResp' = NoHttpResp
            /\ http' = [http EXCEPT !.pc = "limiter"]
       ELSE /\ httpResp' = [Blocked(404, "", "Route not found") EXCEPT !.by = "notFound"]
            /\ http' = [http EXCEPT !.pc = "done"]
    /\ UNCHANGED <<authVars, roleVars, docVars, rlVars>>

\* app.use('/api', generalLimiter, apiRoutes): over the limit 429, otherwise
\* the request is handed to the API router's handlers
generalLimiter(overLimit) ==
    /\ http.pc = "limiter"
    /\ IF overLimit
       THEN /\ httpResp' = [Blocked(429, "", "Too many requests, please try again later")
                               EXCEPT !.by = "generalLimiter"]
            /\ http' = [http EXCEPT !.pc = "done"]
       ELSE /\ httpResp' = [Passed EXCEPT !.by = "generalLimiter"]
            /\ http' = [http EXCEPT !.pc = "handler", !.passed = Append(@, "generalLimiter")]
    /\ UNCHANGED <<authVars, roleVars, docVars, rlVars>>

----------------------------------------------------------------------------
\* Specification of the session lifecycle

----------------------------------------------------------------------------
\* Rate limiting (middleware/rateLimiter.js): the Redis-backed store and the
\* limiters configured on it.  Times are in seconds.

NoExpiry == -1

\* the TTL RedisStore.increment gives a new counter
StoreWindow == 60

\* windowMs / 1000, max, store prefix and skipSuccessfulRequests of the limiters
generalLimiter_config ==
    [name |-> "general", prefix |-> "rl:general:", window |-> 60, max |-> 100, skip |-> FALSE]
authLimiter ==
    [name |-> "auth", prefix |-> "rl:auth:", window |-> 60, max |-> 5, skip |-> TRUE]
createLimiter ==
    [name |-> "create", prefix |-> "rl:create:", window |-> 60, max |-> 20, skip |-> FALSE]
strictLimiter ==
    [name |-> "strict", prefix |-> "rl:strict:", window |-> 5 * 60, max |-> 10, skip |-> FALSE]

\* Redis: keys whose TTL has not run out at time t, and keys without a TTL
LiveLimits(s, t) == {x \in s : x.expireAt = NoExpiry \/ t < x.expireAt}

CounterOf(s, k) == {x \in s : x.key = k}

\* INCR: a missing key counts as 0 and is created without a TTL
redisIncr(s, k) ==
    IF CounterOf(s, k) = {}
    THEN s \cup {[key |-> k, val |-> 1, expireAt |-> NoExpiry]}
    ELSE {IF x.key = k THEN [x EXCEPT !.val = @ + 1] ELSE x : x \in s}

\* DECR: a missing key counts as 0 and is created without a TTL
redisDecr(s, k) ==
    IF CounterOf(s, k) = {}
    THEN s \cup {[key |-> k, val |-> 0 - 1, expireAt |-> NoExpiry]}
    ELSE {IF x.key = k THEN [x EXCEPT !.val = @ - 1] ELSE x : x \in s}

\* EXPIRE key seconds
redisExpire(s, k, seconds, t) ==
    {IF x.key = k THEN [x EXCEPT !.expireAt = t + seconds] ELSE x : x \in s}

redisDel(s, k) == {x \in s : x.key # k}

redisKey(prefix, key) == <<prefix, key>>

\* RedisStore.increment: INCR, EXPIRE 60 when the counter is new
StoreIncrement(s, prefix, key, t) ==
    LET s1 == redisIncr(s, redisKey(prefix, key))
        current == (CHOOSE x \in CounterOf(s1, redisKey(prefix, key)) : TRUE).val
    IN [store |-> IF current = 1 THEN redisExpire(s1, redisKey(prefix, key), StoreWindow, t)
                  ELSE s1,
        totalHits |-> current]

\* RedisStore.decrement
StoreDecrement(s, prefix, key) == redisDecr(s, redisKey(prefix, key))

\* RedisStore.resetKey
StoreResetKey(s, prefix, key) == redisDel(s, redisKey(prefix, key))

NoRlResp == [limiter |-> "", key |-> "", status |-> 0, totalHits |-> 0]

\* the caller keys (req.ip) of the model
CallerKeys == {"ip1"}

LimiterKeys == {<<l.name, k>> : l \in {generalLimiter_config, authLimiter, createLimiter,
                                        strictLimiter}, k \in CallerKeys}

NoHist == [requests |-> 0, admits |-> <<>>, start |-> 0]

\* no counter, no request yet
LimiterIdle ==
    /\ limits = {}
    /\ rlHist = [x \in LimiterKeys |-> NoHist]
    /\ rlPending = [x \in LimiterKeys |-> 0]
    /\ rlResp = NoRlResp

\* the rate-limit middleware for one request: increment the caller's counter,
\* 429 when the total exceeds max, otherwise next()
LimiterRequest(l, key) ==
    /\ LET hit == StoreIncrement(LiveLimits(limits, now), l.prefix, key, now)
           h == rlHist[<<l.name, key>>]
       IN /\ h.requests < l.max + MaxExtra
          /\ limits' = hit.store
          /\ IF hit.totalHits > l.max
             THEN /\ rlResp' = [limiter |-> l.name, key |-> key, status |-> 429,
                                totalHits |-> hit.totalHits]
                  /\ rlHist' = [rlHist EXCEPT ![<<l.name, key>>] =
                                   [requests |-> h.requests + 1, admits |-> h.admits,
                                    start |-> IF hit.totalHits = 1 THEN now ELSE h.start]]
                  /\ UNCHANGED rlPending
             ELSE /\ rlResp' = [limiter |-> l.name, key |-> key, status |-> 0,
                                totalHits |-> hit.totalHits]
                  /\ rlHist' = [rlHist EXCEPT ![<<l.name, key>>] =
                                   [requests |-> h.requests + 1,
                                    admits |-> Append(h.admits, now),
                                    start |-> IF hit.totalHits = 1 THEN now ELSE h.start]]
                  /\ rlPending' = [rlPending EXCEPT ![<<l.name, key>>] =
                                      IF l.skip THEN @ + 1 ELSE @]
    /\ UNCHANGED <<authVars, roleVars, httpVars, docVars>>

\* skipSuccessfulRequests: when the response of an admitted request finishes
\* with a status below 400 the middleware takes its hit back
LimiterFinish(l, key, successful) ==
    /\ l.skip
    /\ rlPending[<<l.name, key>>] > 0
    /\ rlPending' = [rlPending EXCEPT ![<<l.name, key>>] = @ - 1]
    /\ limits' = IF successful THEN StoreDecrement(LiveLimits(limits, now), l.prefix, key)
                 ELSE LiveLimits(limits, now)
    /\ rlResp' = NoRlResp
    /\ UNCHANGED rlHist
    /\ UNCHANGED <<authVars, roleVars, httpVars, docVars>>

\* a call of store.resetKey(key)
LimiterResetKey(l, key) ==
    /\ CounterOf(LiveLimits(limits, now), redisKey(l.prefix, key)) # {}
    /\ limits' = StoreResetKey(LiveLimits(limits, now), l.prefix, key)
    /\ rlHist' = [rlHist EXCEPT ![<<l.name, key>>] = [@ EXCEPT !.admits = <<>>, !.start = 0]]
    /\ rlResp' = NoRlResp
    /\ UNCHANGED rlPending
    /\ UNCHANGED <<authVars, roleVars, httpVars, docVars>>

\* the clock advances; Redis drops the counters whose TTL has run out
LimiterTick(d) ==
    /\ ticks < MaxTicks
    /\ now' = now + d
    /\ ticks' = ticks + 1
    /\ limits' = LiveLimits(limits, now + d)
    /\ rlResp' = NoRlResp
    /\ UNCHANGED <<rlHist, rlPending>>
    /\ UNCHANGED <<env, users, nextUserId, redis, issued, lastWritten, loggedOut, req, resp>>
    /\ UNCHANGED <<roleVars, httpVars, docVars>>

DocInit ==
    /\ tickets = {}
    /\ nextTicketId = 1
    /\ notes = {}
    /\ nextNoteId = 1

RoleInit ==
    /\ DocInit
    /\ projects = {}
    /\ nextProjectId = 1
    /\ collabs = {}
    /\ nextCollabId = 1
    /\ accepted = {}
    /\ invitedAs = {}
    /\ mw = [i \in Slots |-> IdleMw]
    /\ mwResp = NoMwResp

AuthInit ==
    /\ HttpIdle
    /\ LimiterIdle
    /\ env = [JWT_SECRET |-> "access-secret", JWT_REFRESH_SECRET |-> "refresh-secret",
            JWT_EXPIRY |-> Unset, JWT_REFRESH_EXPIRY |-> Unset]
    /\ now = 0
    /\ ticks = 0
    /\ users = {}
    /\ nextUserId = 1
    /\ redis = {}
    /\ issued = {}
    /\ lastWritten = {}
    /\ loggedOut = {}
    /\ req = [i \in Slots |-> IdleReq]
    /\ resp = NoResp

Init == AuthInit /\ RoleInit

\* Registration and login requests a client can send
RegisterInputs ==
    {[username |-> "alice", email |-> "a@x.com"],
     [username |-> "bob", email |-> "b@x.com"],
     [username |-> "bob", email |-> "invalid-email"]}

AuthNext(S) ==
    \/ \E i \in S, in \in RegisterInputs : RegisterCheck(i, in.username, in.email, "P@ssw0rd1")
    \/ \E i \in S : RegisterInsert(i)
    \/ \E i \in S : RegisterStore(i)
    \/ \E i \in S, e \in Emails \cup {"invalid-email"}, p \in Passwords : LoginQuery(i, e, p)
    \/ \E i \in S : LoginStore(i)
    \/ \E i \in S : LoginUpdate(i)
    \/ \E i \in S : Logout(i, FALSE, NoToken)
    \/ \E i \in S, t \in BearerInputs : Logout(i, TRUE, t)
    \/ \E i \in S, t \in RefreshInputs : RefreshGet(i, t)
    \/ \E i \in S : RefreshStore(i)
    \/ \E d \in TickSteps : Tick(d)

Next == AuthNext(SeqSlots)

Spec == Init /\ [][Next]_vars

----------------------------------------------------------------------------
\* Properties of the session lifecycle (checked under Spec)

IssuedRefreshTokens == {p.refreshToken : p \in issued}

RefreshAccepts(token) == RefreshOutcome(env, redis, token, now).status = 0

\* The refresh response in resp answers a refresh token that a client was
\* sent, whose signature verifies and that has not expired
AnsweredGenuineRefresh ==
    /\ resp.op = "refresh"
    /\ resp.tok \in IssuedRefreshTokens
    /\ jwtVerify(resp.tok, env.JWT_REFRESH_SECRET, now).ok

\* C1: for every user, the refresh operation accepts at most one refresh token,
\* and a token it accepts is the one most recently written to the cache under
\* that user's key; a refresh request that presents a token a client was sent
\* earlier, still signature-valid and unexpired, but no longer the most
\* recently written one, is answered 401.
C1_OnlyLastWrittenAccepted ==
    /\ \A t \in RefreshInputs : RefreshAccepts(t) => <<t.userId, t>> \in lastWritten
    /\ \A u \in {x.user_id : x \in users} :
          Cardinality({t \in RefreshInputs : RefreshAccepts(t) /\ t.userId = u}) <= 1
    /\ (AnsweredGenuineRefresh /\ resp.status # 200 /\ <<resp.tok.userId, resp.tok>> \notin lastWritten)
          => resp.status = 401

\* C1 witness: a refresh request presenting an overwritten, still valid token
\* has been answered 401 while the cache holds the user's newer token
C1_Witness ==
    /\ AnsweredGenuineRefresh
    /\ resp.status = 401
    /\ resp.stored # NoToken
    /\ resp.stored # resp.tok
    /\ <<resp.tok.userId, resp.stored>> \in lastWritten

\* C2 (as claimed): a successful refresh presenting R answers with a pair whose
\* refresh token differs from R, leaves that new token in the cache, and a
\* refresh request presenting R from then on is rejected.
C2_RefreshRotates ==
    (resp.op = "refresh" /\ resp.status = 200) =>
        /\ resp.out.refreshToken # resp.tok
        /\ getRedis(redis, refreshKey(resp.tok.userId), now) = resp.out.refreshToken
        /\ ~RefreshAccepts(resp.tok)

\* C3: after a successful logout of a user, and until the next cache write for
\* that user (register, login or refresh), the cache has no entry under the
\* user's key, no refresh token the user was sent is accepted, and a refresh
\* request presenting such a token that still verifies is answered 401 on the
\* cache miss.
C3_LogoutRevokes ==
    \A u \in loggedOut :
        /\ ~\E x \in redis : x.key = refreshKey(u)
        /\ \A t \in IssuedRefreshTokens : t.userId = u => ~RefreshAccepts(t)
        /\ (resp.op = "refresh" /\ resp.decoded # NoToken /\ resp.decoded.userId = u)
              => (resp.status = 401 /\ resp.stored = NoToken)

\* C3 witness: a refresh request presenting the still-valid refresh token of a
\* logged-out user has been answered 401 after the cache lookup missed
C3_Witness ==
    /\ AnsweredGenuineRefresh
    /\ resp.tok.userId \in loggedOut
    /\ <<resp.tok.userId, resp.tok>> \in lastWritten
    /\ resp.status = 401
    /\ resp.stored = NoToken

----------------------------------------------------------------------------
\* Specification of the project routes: three registered users send project,
\* collaborator and role-gated requests, one request at a time

RoleUsers ==
    {[user_id |-> 1, username |-> "alice", email |-> "a@x.com",
      password_hash |-> bcryptHash("P@ssw0rd1")],
     [user_id |-> 2, username |-> "bob", email |-> "b@x.com",
      password_hash |-> bcryptHash("P@ssw0rd1")],
     [user_id |-> 3, username |-> "carol", email |-> "c@x.com",
      password_hash |-> bcryptHash("P@ssw0rd1")]}

\* alice and bob send requests; carol is only ever invited
CallerIds == {1, 2}
UserIds == {u.user_id : u \in RoleUsers}
ProjectIds == 1..MaxRows

AuthIdle ==
    /\ HttpIdle
    /\ LimiterIdle
    /\ env = [JWT_SECRET |-> "access-secret", JWT_REFRESH_SECRET |-> "refresh-secret",
            JWT_EXPIRY |-> Unset, JWT_REFRESH_EXPIRY |-> Unset]
    /\ now = 0
    /\ ticks = 0
    /\ users = RoleUsers
    /\ nextUserId = 4
    /\ redis = {}
    /\ issued = {}
    /\ lastWritten = {}
    /\ loggedOut = {}
    /\ req = [i \in Slots |-> IdleReq]
    /\ resp = NoResp

RoleSpecInit == AuthIdle /\ RoleInit

\* Ids a request names: those issued so far (their rows may have been deleted
\* since); a role-gated request may also name the next one, which names no row
IssuedProjectIds == 1..(nextProjectId - 1)
RequestProjectIds == 1..nextProjectId
IssuedCollabIds == 1..(nextCollabId - 1)

GatedNext(S) ==
    \/ \E i \in S, u \in CallerIds, p \in RequestProjectIds, g \in GatedRoutes : RoleQuery(i, u, p, g)
    \/ \E i \in S, g \in GatedRoutes : RoleQuery(i, 1, NoProject, g)
    \/ \E i \in S : RoleDecide(i)
    \/ \E i \in S : RouteHandler(i)
    \/ \E i \in S, u \in CallerIds, p \in IssuedProjectIds, g \in InlineRoutes : InlineAccess(i, u, p, g)

\* Project owners: alice creates the projects, everybody calls every route
Creators == {1}

\* Invitation bodies: bob and carol with both roles, the owner, an unknown
\* address, and one body the validation refuses
InviteInputs ==
    {[email |-> e, role |-> r] : e \in {"b@x.com", "c@x.com"}, r \in {"editor", "viewer"}}
    \cup {[email |-> "a@x.com", role |-> "viewer"], [email |-> "d@x.com", role |-> "viewer"],
          [email |-> "b@x.com", role |-> "owner"]}

\* Update bodies: a role, permissions, neither, or a role the validation refuses
UpdateInputs ==
    {[role |-> "editor", perms |-> FALSE], [role |-> "viewer", perms |-> FALSE],
     [role |-> "", perms |-> TRUE], [role |-> "", perms |-> FALSE],
     [role |-> "owner", perms |-> FALSE]}

CollabNext(S) ==
    \/ \E i \in S, u \in Creators : ProjectCreate(i, u)
    \/ \E i \in S, u \in CallerIds, p \in IssuedProjectIds, in \in InviteInputs :
          InviteProject(i, u, p, in.email, in.role)
    \/ \E i \in S : InviteEditor(i)
    \/ \E i \in S : InviteUser(i)
    \/ \E i \in S : InviteExisting(i)
    \/ \E i \in S : InviteInsert(i)
    \/ \E i \in S, u \in CallerIds, c \in IssuedCollabIds : AcceptCheck(i, u, c)
    \/ \E i \in S : AcceptUpdate(i)
    \/ \E i \in S, u \in CallerIds, c \in IssuedCollabIds, in \in UpdateInputs :
          CollabUpdateCheck(i, u, c, in.role, in.perms)
    \/ \E i \in S : CollabUpdateEditor(i)
    \/ \E i \in S : CollabUpdateWrite(i)
    \/ \E i \in S, u \in CallerIds, c \in IssuedCollabIds : CollabRemoveCheck(i, u, c)
    \/ \E i \in S : CollabRemoveEditor(i)
    \/ \E i \in S : CollabRemoveDelete(i)

RoleNext == GatedNext(SeqSlots) \/ CollabNext(SeqSlots)

SpecRole == RoleSpecInit /\ [][RoleNext]_vars

----------------------------------------------------------------------------
\* Properties of the project routes (checked under SpecRole)

AllowedOf(route) == (CHOOSE g \in GatedRoutes : g.route = route).allowed

DeniedOf(route) == (CHOOSE g \in InlineRoutes : g.route = route).denied

GatedAnswered ==
    /\ mwResp.pc = "done"
    /\ mwResp.route \in {g.route : g \in GatedRoutes}
    /\ mwResp.status # 400

InlineAnswered ==
    /\ mwResp.pc = "done"
    /\ mwResp.route \in {g.route : g \in InlineRoutes}

RowsOf(userId, projectId) ==
    {c \in collabs : c.project_id = projectId /\ c.user_id = userId}

\* the user does not own the project and has collaboration rows for it, every
\* one of them pending
PendingOnly(userId, projectId) ==
    /\ userId \notin OwnerRows(projects, projectId)
    /\ RowsOf(userId, projectId) # {}
    /\ \A c \in RowsOf(userId, projectId) : c.accepted_at = NULL

\* result.rows[0].role of the collaborator query, "" when it returned no row
Row0s(userId, projectId) ==
    IF AcceptedRoles(collabs, projectId, userId) = {} THEN {""}
    ELSE AcceptedRoles(collabs, projectId, userId)

\* C5: a user who does not own the project and whose collaboration rows for
\* it are all pending is denied by requireProjectRole under every allow-list
\* (403, and no request of theirs reaches a gated handler), and is denied by
\* the inline access check of the project read, of the ticket list, create and
\* read and of the note list, create and read.
C5_PendingDenied ==
    /\ \A u \in UserIds, p \in ProjectIds :
          PendingOnly(u, p) =>
             /\ \A allowed \in SUBSET Roles, row0 \in Row0s(u, p) :
                   RoleDecision(allowed, row0, OwnerRows(projects, p), u).status = 403
             /\ AccessCheck(projects, collabs, p, u) = {}
    /\ (GatedAnswered /\ PendingOnly(mwResp.userId, mwResp.projectId)) => mwResp.status = 403
    /\ \A i \in Slots : mw[i].pc = "handler" => ~PendingOnly(mw[i].userId, mw[i].projectId)
    /\ (InlineAnswered /\ PendingOnly(mwResp.userId, mwResp.projectId))
          => mwResp.status = DeniedOf(mwResp.route)

\* C5 witness: the inline check of a ticket or note route has denied a user
\* whose only collaboration row for the project is pending
C5_Witness ==
    /\ InlineAnswered
    /\ mwResp.route \in {"ticket_create", "note_read"}
    /\ PendingOnly(mwResp.userId, mwResp.projectId)
    /\ Cardinality(RowsOf(mwResp.userId, mwResp.projectId)) = 1
    /\ mwResp.status \in {403, 404}

\* the collaboration rows of the user for the project whose accept request
\* has succeeded
AcceptedRowsOf(userId, projectId) ==
    {c \in RowsOf(userId, projectId) : c.collaboration_id \in accepted}

\* the role-gated viewer-level read (the asset listing) has been answered to a
\* user who does not own the project and has a collaboration row for it
ViewerReadAnswered ==
    /\ GatedAnswered
    /\ mwResp.route = "assets_list"
    /\ mwResp.userId \notin OwnerRows(projects, mwResp.projectId)
    /\ RowsOf(mwResp.userId, mwResp.projectId) # {}

\* C6 (as claimed): the viewer-level read of a user invited as viewer is
\* answered 403 while no accept request of theirs has succeeded, and from then
\* on, while the row and the project exist, is admitted with role viewer.
C6_LifecycleAsClaimed ==
    ViewerReadAnswered =>
        LET u == mwResp.userId
            p == mwResp.projectId
        IN /\ AcceptedRowsOf(u, p) = {} => mwResp.status = 403
           /\ (\E c \in AcceptedRowsOf(u, p) : <<c.collaboration_id, "viewer">> \in invitedAs)
                 => (mwResp.status = 200 /\ mwResp.projectRole = "viewer")

\* C6 (amended): the viewer-level read of an invited user is answered 403
\* while no accept request of theirs has succeeded, and from then on, while
\* the row and the project exist, is admitted with the role the row carries
\* at that moment (the invited role, unless a role update has changed it).
C6_Lifecycle ==
    ViewerReadAnswered =>
        LET u == mwResp.userId
            p == mwResp.projectId
        IN /\ AcceptedRowsOf(u, p) = {} => mwResp.status = 403
           /\ AcceptedRowsOf(u, p) # {} =>
                 /\ mwResp.status = 200
                 /\ mwResp.projectRole \in {c.role : c \in AcceptedRowsOf(u, p)}

\* C6 witness: a user invited as viewer has accepted and their viewer-level
\* read has been admitted with role viewer
C6_Witness ==
    /\ ViewerReadAnswered
    /\ \E c \in AcceptedRowsOf(mwResp.userId, mwResp.projectId) :
          <<c.collaboration_id, "viewer">> \in invitedAs
    /\ mwResp.status = 200
    /\ mwResp.projectRole = "viewer"

\* C7: requireProjectRole answers 404 exactly when the project does not exist
\* at its decision, answers 403 only for an existing project and a role that
\* is none or outside the allow-list, and lets a request through to the
\* handler only for an existing project and an allowed role.
C7_NotFoundBeforeForbidden ==
    /\ \A u \in UserIds, p \in ProjectIds : \A allowed \in SUBSET Roles, row0 \in Row0s(u, p) :
          LET d == RoleDecision(allowed, row0, OwnerRows(projects, p), u)
          IN /\ d.status = 404 <=> OwnerRows(projects, p) = {}
             /\ d.status = 403 => (d.role = "" \/ d.role \notin allowed)
    /\ (GatedAnswered /\ mwResp.status = 404) => OwnerRows(projects, mwResp.projectId) = {}
    /\ (GatedAnswered /\ mwResp.status = 403) =>
          /\ OwnerRows(projects, mwResp.projectId) # {}
          /\ mwResp.projectRole \notin AllowedOf(mwResp.route)
    /\ \A i \in Slots : mw[i].pc = "handler" =>
          /\ OwnerRows(projects, mw[i].projectId) # {}
          /\ mw[i].projectRole \in AllowedOf(mw[i].route)

\* C7 witness: requireProjectRole has answered 404 for a project that was
\* deleted, to a caller who had created it
C7_Witness ==
    /\ GatedAnswered
    /\ mwResp.status = 404
    /\ mwResp.projectId < nextProjectId
    /\ mwResp.userId \in Creators

\* a delete request for an existing project, by a user who does not own it
ForeignDelete(r) ==
    /\ r.route = "project_delete"
    /\ OwnerRows(projects, r.projectId) # {}
    /\ r.userId \notin OwnerRows(projects, r.projectId)

\* C17: a project is deleted only by its owner: a delete request for an
\* existing project by anyone else (accepted editor or viewer, pending invitee,
\* unrelated user) is answered 403 and never reaches the handler, and a step
\* that removes a project row or changes the collaboration rows of a project
\* through the delete route is the delete handler run for the project's owner.
C17_OwnerOnlyDelete ==
    [][/\ (mwResp'.pc = "done" /\ ForeignDelete(mwResp')) =>
             /\ mwResp'.status = 403
             /\ projects' = projects
             /\ collabs' = collabs
       /\ \A i \in Slots : mw'[i].pc = "handler" => ~ForeignDelete(mw'[i])
       /\ \A p \in projects :
             p \notin projects' =>
                \E i \in Slots : /\ mw[i].pc = "handler"
                                 /\ mw[i].route = "project_delete"
                                 /\ mw[i].projectId = p.project_id
                                 /\ mw[i].userId = p.owner_id
                                 /\ mw'[i] = IdleMw]_vars

\* C17 witness: the delete request of an accepted editor of an existing
\* project has been answered 403, the project and the editor's row still there
C17_Witness ==
    /\ mwResp.pc = "done"
    /\ ForeignDelete(mwResp)
    /\ mwResp.status = 403
    /\ \E c \in AcceptedRowsOf(mwResp.userId, mwResp.projectId) : c.role = "editor"

----------------------------------------------------------------------------
\* Specification of the role resolver alone: requireProjectRole and the inline
\* access check run against every content of the projects and
\* project_collaborators tables that these rows can form

ResolveRows(id) ==
    {[collaboration_id |-> id, project_id |-> 1, user_id |-> u, role |-> r, accepted_at |-> a] :
        u \in {1, 2}, r \in {"editor", "viewer"}, a \in {NULL, 0}}

ResolveInit ==
    /\ AuthIdle
    /\ DocInit
    /\ \E o \in {1, 2} : projects = {[project_id |-> 1, owner_id |-> o]}
    /\ nextProjectId = 2
    /\ collabs \in {{}} \cup {{a} : a \in ResolveRows(1)}
                   \cup {{a, b} : a \in ResolveRows(1), b \in ResolveRows(2)}
    /\ nextCollabId = 3
    /\ accepted = {c.collaboration_id : c \in {x \in collabs : x.accepted_at # NULL}}
    /\ invitedAs = {<<c.collaboration_id, c.role>> : c \in collabs}
    /\ mw = [i \in Slots |-> IdleMw]
    /\ mwResp = NoMwResp

ResolveNext == GatedNext(SeqSlots)

SpecResolve == ResolveInit /\ [][ResolveNext]_vars

\* C4 (as claimed): the owner of a project is resolved to role owner and
\* admitted by every allow-list that names owner, whatever collaboration rows
\* exist for the owner and the project.
C4_OwnerPrecedence ==
    /\ (GatedAnswered /\ mwResp.userId \in OwnerRows(projects, mwResp.projectId))
          => (mwResp.status = 200 /\ mwResp.projectRole = "owner")
    /\ \A i \in Slots :
          (mw[i].pc = "handler" /\ mw[i].userId \in OwnerRows(projects, mw[i].projectId))
             => mw[i].projectRole = "owner"

----------------------------------------------------------------------------
\* Authentication middleware (middleware/auth.js) and the token functions of
\* config/auth.js called on their own

AuthError_allInvalid(name) == [status |-> 401, message |-> "Invalid token"]

\* the catch block of authenticateToken, by error.name
AuthError(name) ==
    IF name = "JsonWebTokenError" THEN [status |-> 401, message |-> "Invalid token"]
    ELSE IF name = "TokenExpiredError" THEN [status |-> 401, message |-> "Token expired"]
    ELSE [status |-> 500, message |-> "Authentication failed"]

\* authenticateToken up to its await: the header test and jwt.verify with
\* process.env.JWT_SECRET
authenticateToken(i, bearer, token) ==
    /\ Free(i)
    /\ LET r == [IdleReq EXCEPT !.op = "authenticate", !.bearer = bearer, !.tok = token]
           v == jwtVerify(token, env.JWT_SECRET, now)
       IN IF ~bearer
          THEN /\ resp' = Respond(r, 401, "Access token required")
               /\ UNCHANGED req
          ELSE IF ~v.ok
          THEN /\ resp' = Respond(r, AuthError(v.name).status, AuthError(v.name).message)
               /\ UNCHANGED req
          ELSE /\ req' = [req EXCEPT ![i] = [r EXCEPT !.pc = "auth_user", !.decoded = v.decoded]]
               /\ resp' = NoResp
    /\ UNCHANGED <<env, now, ticks, users, nextUserId, redis, issued, lastWritten, loggedOut>>
    /\ UNCHANGED <<roleVars, httpVars, docVars, rlVars>>

\* SELECT ... FROM users WHERE user_id = $1, then req.user and next()
authenticateTokenUser(i) ==
    /\ req[i].pc = "auth_user"
    /\ LET result == {u \in users : u.user_id = req[i].decoded.userId}
       IN resp' = IF result = {}
                  THEN Respond(req[i], 401, "User not found")
                  ELSE [Respond(req[i], 0, "next") EXCEPT
                           !.user = [userId |-> req[i].decoded.userId,
                                     username |-> req[i].decoded.username,
                                     email |-> req[i].decoded.email]]
    /\ req' = [req EXCEPT ![i] = IdleReq]
    /\ UNCHANGED <<env, now, ticks, users, nextUserId, redis, issued, lastWritten, loggedOut>>
    /\ UNCHANGED <<roleVars, httpVars, docVars, rlVars>>

optionalAuthCatch_rejects(name) == [status |-> 401, message |-> "Invalid token", nexts |-> 0]

\* the catch block of optionalAuth: next(), whatever was thrown
optionalAuthCatch(name) == [status |-> 0, message |-> "next", nexts |-> 1]

\* what optionalAuth has done when it returns without having sent a response:
\* the number of next() calls
OptionalAuthPassed(r, nexts) ==
    [IdleReq EXCEPT !.op = "optionalAuth", !.pc = "done", !.bearer = r.bearer, !.tok = r.tok,
                    !.decoded = r.decoded, !.status = 0, !.message = "next", !.nexts = nexts]

\* optionalAuth up to its await: the header test and jwt.verify with
\* process.env.JWT_SECRET
optionalAuth(i, bearer, token) ==
    /\ Free(i)
    /\ LET r == [IdleReq EXCEPT !.op = "optionalAuth", !.bearer = bearer, !.tok = token]
           v == jwtVerify(token, env.JWT_SECRET, now)
           c == optionalAuthCatch(v.name)
       IN IF ~bearer
          THEN /\ resp' = OptionalAuthPassed(r, 1)
               /\ UNCHANGED req
          ELSE IF ~v.ok
          THEN /\ resp' = IF c.status = 0 THEN OptionalAuthPassed(r, c.nexts)
                          ELSE Respond(r, c.status, c.message)
               /\ UNCHANGED req
          ELSE /\ req' = [req EXCEPT ![i] = [r EXCEPT !.pc = "opt_user", !.decoded = v.decoded]]
               /\ resp' = NoResp
    /\ UNCHANGED <<env, now, ticks, users, nextUserId, redis, issued, lastWritten, loggedOut>>
    /\ UNCHANGED <<roleVars, httpVars, docVars, rlVars>>

\* SELECT ... FROM users WHERE user_id = $1 (the query answers or rejects),
\* then req.user when a row came back, and next()
optionalAuthUser(i, queryFails) ==
    /\ req[i].pc = "opt_user"
    /\ LET result == {u \in users : u.user_id = req[i].decoded.userId}
           c == optionalAuthCatch("Error")
       IN resp' = IF queryFails
                  THEN (IF c.status = 0 THEN OptionalAuthPassed(req[i], c.nexts)
                        ELSE Respond(req[i], c.status, c.message))
                  ELSE IF result = {}
                  THEN OptionalAuthPassed(req[i], 1)
                  ELSE [OptionalAuthPassed(req[i], 1) EXCEPT
                           !.user = [userId |-> req[i].decoded.userId,
                                     username |-> req[i].decoded.username,
                                     email |-> req[i].decoded.email]]
    /\ req' = [req EXCEPT ![i] = IdleReq]
    /\ UNCHANGED <<env, now, ticks, users, nextUserId, redis, issued, lastWritten, loggedOut>>
    /\ UNCHANGED <<roleVars, httpVars, docVars, rlVars>>

\* a call of generateTokenPair(userId, email, username)
TokenPairCall(i, u) ==
    /\ Free(i)
    /\ LET pair == generateTokenPair(env, u.user_id, u.email, u.username, now)
       IN /\ issued' = issued \cup {pair}
          /\ resp' = [IdleReq EXCEPT !.op = "generateTokenPair", !.pc = "done",
                                     !.user = u, !.out = pair]
    /\ UNCHANGED <<env, now, ticks, users, nextUserId, redis, lastWritten, loggedOut, req>>
    /\ UNCHANGED <<roleVars, httpVars, docVars, rlVars>>

\* a call of verifyAccessToken(token): the claims returned or the Error thrown
VerifyAccessCall(i, token) ==
    /\ Free(i)
    /\ LET v == verifyAccessToken(env, token, now)
       IN resp' = [IdleReq EXCEPT !.op = "verifyAccessToken", !.pc = "done", !.tok = token,
                                  !.status = IF v.ok THEN 0 ELSE 500,
                                  !.message = v.message, !.decoded = v.decoded]
    /\ UNCHANGED <<env, now, ticks, users, nextUserId, redis, issued, lastWritten, loggedOut, req>>
    /\ UNCHANGED <<roleVars, httpVars, docVars, rlVars>>

\* a call of verifyRefreshToken(token): the claims returned or the Error thrown
VerifyRefreshCall(i, token) ==
    /\ Free(i)
    /\ LET v == verifyRefreshToken(env, token, now)
       IN resp' = [IdleReq EXCEPT !.op = "verifyRefreshToken", !.pc = "done", !.tok = token,
                                  !.status = IF v.ok THEN 0 ELSE 500,
                                  !.message = v.message, !.decoded = v.decoded]
    /\ UNCHANGED <<env, now, ticks, users, nextUserId, redis, issued, lastWritten, loggedOut, req>>
    /\ UNCHANGED <<roleVars, httpVars, docVars, rlVars>>

----------------------------------------------------------------------------
\* Specification of the token functions and the authentication middleware:
\* the secrets are set or left to their defaults, bob's account is gone, and
\* tokens are generated, aged, verified and presented

\* the identities tokens are generated for: alice, whose account exists, and
\* bob, whose account is gone
Identities == {u \in RoleUsers : u.user_id \in {1, 2}}

TokenInit ==
    /\ HttpIdle
    /\ LimiterIdle
    /\ env \in EnvConfigs
    /\ now = 0
    /\ ticks = 0
    /\ users = {u \in RoleUsers : u.user_id # 2}
    /\ nextUserId = 4
    /\ redis = {}
    /\ issued = {}
    /\ lastWritten = {}
    /\ loggedOut = {}
    /\ req = [i \in Slots |-> IdleReq]
    /\ resp = NoResp
    /\ RoleInit

TokenNext ==
    \/ \E i \in SeqSlots, u \in Identities : TokenPairCall(i, u)
    \/ \E i \in SeqSlots, t \in BearerInputs : VerifyAccessCall(i, t)
    \/ \E i \in SeqSlots, t \in RefreshInputs : VerifyRefreshCall(i, t)
    \/ \E i \in SeqSlots : authenticateToken(i, FALSE, NoToken)
    \/ \E i \in SeqSlots, t \in BearerInputs : authenticateToken(i, TRUE, t)
    \/ \E i \in SeqSlots : authenticateTokenUser(i)
    \/ \E i \in SeqSlots : optionalAuth(i, FALSE, NoToken)
    \/ \E i \in SeqSlots, t \in BearerInputs : optionalAuth(i, TRUE, t)
    \/ \E i \in SeqSlots, f \in BOOLEAN : optionalAuthUser(i, f)
    \/ \E i \in SeqSlots, t \in RefreshInputs : RefreshGet(i, t)
    \/ \E d \in TickSteps : (\A i \in Slots : Free(i)) /\ Tick(d)

SpecToken == TokenInit /\ [][TokenNext]_vars

\* the presented token carries a signature made with `secret`
SignedWith(token, secret) ==
    /\ token \notin {NoToken, Malformed}
    /\ secret # Unset
    /\ token.sig = secret

\* the user named by the token has a row in users
AccountExists(token) == \E u \in users : u.user_id = token.userId

AuthAnswered == resp.pc = "done" /\ resp.op = "authenticate"

\* C8: authenticateToken answers 401 'Access token required' exactly when
\* there is no bearer header, 401 'Invalid token' exactly when the bearer token
\* is malformed or not signed with the access secret, 401 'Token expired'
\* exactly when it is signed with the access secret and past its expiry, 401
\* 'User not found' exactly when it is valid and unexpired and its user has no
\* row; otherwise, and only then, it calls next() with the token's identity
\* attached.
C8_AuthSignals ==
    AuthAnswered =>
        LET good == SignedWith(resp.tok, env.JWT_SECRET)
            expired == now >= resp.tok.exp
        IN /\ resp.status \in {0, 401}
           /\ (resp.message = "Access token required") <=> ~resp.bearer
           /\ (resp.message = "Invalid token") <=> (resp.bearer /\ ~good)
           /\ (resp.message = "Token expired") <=> (resp.bearer /\ good /\ expired)
           /\ (resp.message = "User not found")
                 <=> (resp.bearer /\ good /\ ~expired /\ ~AccountExists(resp.tok))
           /\ (resp.status = 0)
                 <=> (resp.bearer /\ good /\ ~expired /\ AccountExists(resp.tok))
           /\ (resp.status = 0) =>
                 resp.user = [userId |-> resp.tok.userId, username |-> resp.tok.username,
                              email |-> resp.tok.email]

\* C8 witness: an access token the server generated has been presented after
\* its expiry and answered 401 'Token expired'
C8_Witness ==
    /\ AuthAnswered
    /\ resp.tok \in {p.accessToken : p \in issued}
    /\ now >= resp.tok.exp
    /\ resp.status = 401
    /\ resp.message = "Token expired"

\* the answer in resp is that of a verification of resp.tok by
\* verifyAccessToken, by verifyRefreshToken or by the refresh endpoint, and
\* resp.tok carries the right signature and is past its expiry
ExpiredVerified ==
    /\ resp.pc = "done"
    /\ now >= resp.tok.exp
    /\ \/ resp.op = "verifyAccessToken" /\ SignedWith(resp.tok, jwtConfig(env).secret)
       \/ resp.op = "verifyRefreshToken" /\ SignedWith(resp.tok, jwtConfig(env).refreshSecret)
       \/ resp.op = "refresh" /\ SignedWith(resp.tok, env.JWT_REFRESH_SECRET)

\* what the same verification reports for the token `token`
ReportFor(op, token) ==
    IF op = "verifyAccessToken" THEN verifyAccessToken(env, token, now).message
    ELSE IF op = "verifyRefreshToken" THEN verifyRefreshToken(env, token, now).message
    ELSE RefreshOutcome(env, redis, token, now).message

\* C9 (as claimed): what a verification reports for a token past its expiry
\* differs from what it reports for a malformed token and for a token signed
\* with a different secret.
C9_ExpiredDistinct ==
    ExpiredVerified =>
        /\ resp.message # ReportFor(resp.op, Malformed)
        /\ resp.message # ReportFor(resp.op, Forge(resp.tok))

\* C10: right after generateTokenPair(userId, email, username), with the
\* secrets set or defaulted, verifyAccessToken accepts the access token and
\* verifyRefreshToken accepts the refresh token, and both return the userId,
\* email and username that were given.
C10_RoundTrip ==
    /\ (resp.pc = "done" /\ resp.op = "generateTokenPair") =>
          LET a == verifyAccessToken(env, resp.out.accessToken, now)
              r == verifyRefreshToken(env, resp.out.refreshToken, now)
          IN /\ a.ok /\ r.ok
             /\ \A d \in {a.decoded, r.decoded} :
                   /\ d.userId = resp.user.user_id
                   /\ d.email = resp.user.email
                   /\ d.username = resp.user.username
    /\ \A p \in issued :
          /\ (resp.pc = "done" /\ resp.op = "verifyAccessToken" /\ resp.tok = p.accessToken
                /\ p.accessToken.iat = now)
                => (resp.status = 0 /\ resp.decoded.userId = p.accessToken.userId)
          /\ (resp.pc = "done" /\ resp.op = "verifyRefreshToken" /\ resp.tok = p.refreshToken
                /\ p.refreshToken.iat = now)
                => (resp.status = 0 /\ resp.decoded.userId = p.refreshToken.userId)

\* C10 witness: with the secrets left to their defaults, the refresh token of
\* a pair generated this second has been verified and bob's identity returned
C10_Witness ==
    /\ env.JWT_REFRESH_SECRET = Unset
    /\ resp.pc = "done"
    /\ resp.op = "verifyRefreshToken"
    /\ resp.tok \in {p.refreshToken : p \in issued}
    /\ resp.tok.iat = now
    /\ resp.status = 0
    /\ resp.decoded.userId = 2
    /\ resp.decoded.email = "b@x.com"
    /\ resp.decoded.username = "bob"

OptionalAnswered == resp.pc = "done" /\ resp.op = "optionalAuth"

\* C11: optionalAuth never sends a response: whatever the header and token
\* and whether or not the user query fails, it calls next() exactly once; the
\* request carries an identity exactly when the token verified with the access
\* secret, was unexpired, the query answered and the user has a row, and that
\* identity is the token's.
C11_OptionalNeverRejects ==
    /\ \A i \in Slots : req[i].op = "optionalAuth" => req[i].pc = "opt_user"
    /\ OptionalAnswered =>
          /\ resp.status = 0
          /\ resp.nexts = 1
          /\ resp.user # NoUser =>
                /\ resp.bearer
                /\ SignedWith(resp.tok, env.JWT_SECRET)
                /\ resp.decoded = resp.tok
                /\ AccountExists(resp.tok)
                /\ resp.user = [userId |-> resp.tok.userId, username |-> resp.tok.username,
                                email |-> resp.tok.email]
          /\ (~resp.bearer \/ ~SignedWith(resp.tok, env.JWT_SECRET) \/ ~AccountExists(resp.tok))
                => resp.user = NoUser

\* C11 witness: optionalAuth has passed on, without identity, a request whose
\* token verified but whose user has no row
C11_Witness ==
    /\ OptionalAnswered
    /\ resp.decoded # NoToken
    /\ ~AccountExists(resp.tok)
    /\ resp.nexts = 1
    /\ resp.user = NoUser

----------------------------------------------------------------------------
\* Specification of the CSRF guard: one request, drawn from the requests a
\* client can send, given to csrfProtection, to csrfProtectionEncrypted, or to
\* the server's middleware chain

Methods == {"GET", "HEAD", "OPTIONS", "POST", "PUT", "PATCH", "DELETE"}
Paths == {"/api/projects", "/api/csrf-token", "/nowhere"}
AuthorizationHeaders == {Undefined, Str("Bearer abc"), Str("Basic abc"), Str("bearer abc")}
CookieValues == {Undefined, Str(""), Str("a1"), Str("b2")}
HeaderValues == {Undefined, Str(""), Str("a1"), Str("b2"),
                 Str(generateEncryptedToken("a1")), Str("a1.forged")}
BodyValues == {Undefined, Str(generateEncryptedToken("b2"))}
QueryValues == {Undefined, Str(generateEncryptedToken("a1"))}

CsrfInit ==
    /\ env = [JWT_SECRET |-> "access-secret", JWT_REFRESH_SECRET |-> "refresh-secret",
            JWT_EXPIRY |-> Unset, JWT_REFRESH_EXPIRY |-> Unset]
    /\ now = 0
    /\ ticks = 0
    /\ users = {}
    /\ nextUserId = 1
    /\ redis = {}
    /\ issued = {}
    /\ lastWritten = {}
    /\ loggedOut = {}
    /\ req = [i \in Slots |-> IdleReq]
    /\ resp = NoResp
    /\ RoleInit
    /\ \E m \in Methods, p \in Paths, a \in AuthorizationHeaders, c \in CookieValues,
          h \in HeaderValues, b \in BodyValues, q \in QueryValues :
          http = [IdleHttp EXCEPT !.pc = "received", !.method = m, !.path = p,
                                  !.authorization = a, !.cookie = c, !.header = h,
                                  !.bodyCsrf = b, !.queryCsrf = q]
    /\ httpResp = NoHttpResp
    /\ LimiterIdle

CsrfNext ==
    \/ csrfProtectionCall
    \/ csrfProtectionEncryptedCall
    \/ \E t \in GeneratedTokens : setCsrfToken(t)
    \/ ServerRoutes
    \/ \E o \in BOOLEAN : generalLimiter(o)

SpecCsrf == CsrfInit /\ [][CsrfNext]_vars

\* a non-safe request without a Bearer authorization header
CsrfSubject ==
    /\ http.method \notin {"GET", "HEAD", "OPTIONS"}
    /\ ~(http.authorization.defined /\ Len(http.authorization.text) >= 7
          /\ SubSeq(http.authorization.text, 1, 7) = "Bearer ")

BothPresent == Truthy(http.cookie) /\ Truthy(http.header)

AnsweredBy(name) == http.pc = "done" /\ httpResp.by = name

\* C12: for a non-safe request without a Bearer header, csrfProtection calls
\* next() exactly when the XSRF-TOKEN cookie and the X-XSRF-TOKEN header both
\* carry a token and the two are equal; it answers 403 CSRF_MISSING when either
\* carries none and 403 CSRF_INVALID when both carry one and they differ.
C12_DoubleSubmit ==
    (AnsweredBy("csrfProtection") /\ CsrfSubject) =>
        /\ (httpResp.nexts = 1 /\ httpResp.status = 0)
              <=> (BothPresent /\ http.cookie = http.header)
        /\ (httpResp.status = 403 /\ httpResp.code = "CSRF_MISSING" /\ httpResp.nexts = 0)
              <=> ~BothPresent
        /\ (httpResp.status = 403 /\ httpResp.code = "CSRF_INVALID" /\ httpResp.nexts = 0)
              <=> (BothPresent /\ http.cookie # http.header)

\* C12 witness: a POST without Bearer whose cookie and header differ was
\* answered 403 CSRF_INVALID
C12_Witness ==
    /\ AnsweredBy("csrfProtection")
    /\ http.method = "POST"
    /\ ~HasBearer(http.authorization)
    /\ BothPresent
    /\ http.cookie # http.header
    /\ httpResp.code = "CSRF_INVALID"

\* C13: csrfProtection and csrfProtectionEncrypted call next() and send
\* nothing for every GET, HEAD and OPTIONS request and for every request with a
\* Bearer authorization header, whatever CSRF tokens it carries or lacks.
C13_SafeAndBearerPass ==
    ((AnsweredBy("csrfProtection") \/ AnsweredBy("csrfProtectionEncrypted")) /\ ~CsrfSubject) =>
        /\ httpResp.nexts = 1
        /\ httpResp.status = 0

\* C13 witness: csrfProtectionEncrypted passed a DELETE with a Bearer header
\* and no CSRF token anywhere
C13_Witness ==
    /\ AnsweredBy("csrfProtectionEncrypted")
    /\ http.method = "DELETE"
    /\ HasBearer(http.authorization)
    /\ ~Truthy(http.header) /\ ~Truthy(http.bodyCsrf) /\ ~Truthy(http.queryCsrf)
    /\ httpResp.nexts = 1

\* C14: in the server's middleware chain a non-safe /api request without a
\* Bearer header is handed to the API handlers only after it passed the CSRF
\* guard, hence only with cookie and header both present and equal.
C14_GuardBeforeHandlers ==
    (http.pc = "handler" /\ CsrfSubject) =>
        /\ \E k \in 1..Len(http.passed) : http.passed[k] = "csrfProtection"
        /\ BothPresent
        /\ http.cookie = http.header

----------------------------------------------------------------------------
\* the email belongs to no user / to a user with another password
UnknownEmail(email) == isEmail(email) /\ ~\E u \in users : u.email = email
WrongPassword(email, password) ==
    /\ password # ""
    /\ \E u \in users : u.email = email /\ ~bcryptCompare(password, u.password_hash)

LoginInputs == (Emails \cup {"c@x.com"}) \X Passwords

\* C19: a login with an email no user has and a login with a user's email and
\* a wrong password get the same answer, status 401 with the message 'Invalid
\* email or password', and every 401 of the login route carries that message.
C19_LoginIndistinct ==
    /\ \A a \in LoginInputs, b \in LoginInputs :
          (UnknownEmail(a[1]) /\ a[2] # "" /\ WrongPassword(b[1], b[2])) =>
             /\ LoginDecision(users, a[1], a[2]) = LoginDecision(users, b[1], b[2])
             /\ LoginDecision(users, a[1], a[2]).status = 401
             /\ LoginDecision(users, a[1], a[2]).message = "Invalid email or password"
    /\ (resp.op = "login" /\ resp.status \notin {0, 200, 400}) =>
          (resp.status = 401 /\ resp.message = "Invalid email or password")

\* C19 witness: with one address registered and another not, a login has just
\* been answered 401
C19_Witness ==
    /\ resp.op = "login"
    /\ resp.status = 401
    /\ \E a \in LoginInputs : UnknownEmail(a[1])
    /\ \E b \in LoginInputs : WrongPassword(b[1], b[2])

LogoutAnswered == resp.op = "logout" /\ resp.status # 0

\* C15: logout answers 401 when the request has no bearer token or the token
\* does not verify, and 200 only for a verifying access token, in which case
\* the user's cache entry is gone; it never answers 500 to a credential failure.
C15_LogoutCredentialStatus ==
    LogoutAnswered =>
        LET v == jwtVerify(resp.tok, env.JWT_SECRET, now)
        IN /\ (~resp.bearer \/ ~v.ok) => resp.status = 401
           /\ resp.status = 200 =>
                 /\ resp.bearer /\ v.ok
                 /\ getRedis(redis, refreshKey(v.decoded.userId), now) = NoToken
           /\ resp.status # 500

----------------------------------------------------------------------------
\* Specification of the write routes: the ticket and note creation handlers
\* and the role-gated project routes, against every content of the projects
\* and project_collaborators tables drawn by ResolveInit

ViewerNext ==
    \/ \E i \in SeqSlots, u \in CallerIds, p \in IssuedProjectIds, a \in {NULL} \cup UserIds :
          TicketCreate(i, u, p, a)
    \/ \E i \in SeqSlots, u \in CallerIds, p \in IssuedProjectIds, n \in {NULL} \cup 1..nextNoteId :
          NoteCreate(i, u, p, n)
    \/ GatedNext(SeqSlots)

SpecViewer == ResolveInit /\ [][ViewerNext]_vars

\* userId is a viewer of the project: not its owner, and every accepted
\* collaboration row of theirs on it carries the role viewer
IsViewer(userId, projectId) ==
    /\ userId \notin OwnerRows(projects, projectId)
    /\ AcceptedRowsOf(userId, projectId) # {}
    /\ \A c \in AcceptedRowsOf(userId, projectId) : c.role = "viewer"

WriteRoutes == {"ticket_create", "note_create", "project_update", "project_delete"}

\* C16: a viewer is read-only: no ticket, note or project write requested by
\* a user whose only role on the project is viewer is answered with success,
\* and no ticket or note of a project was created by one of its viewers.
C16_ViewerReadOnly ==
    /\ (mwResp.pc = "done" /\ mwResp.route \in WriteRoutes
          /\ IsViewer(mwResp.userId, mwResp.projectId))
          => mwResp.status \notin {200, 201}
    /\ \A t \in tickets : ~IsViewer(t.created_by, t.project_id)
    /\ \A n \in notes : ~IsViewer(n.author_id, n.project_id)

----------------------------------------------------------------------------
\* Specification of concurrent registrations: two requests in flight, their
\* awaits interleaved in every order

RegisterNext ==
    \/ \E i \in Slots, in \in RegisterInputs : RegisterCheck(i, in.username, in.email, "P@ssw0rd1")
    \/ \E i \in Slots : RegisterInsert(i)
    \/ \E i \in Slots : RegisterStore(i)

SpecRegister == Init /\ [][RegisterNext]_vars

\* C18: no two users share an email or a username, whatever the interleaving
\* of registrations; a registration whose email or username is taken is
\* answered 409: none gets past the existence check to find its email or
\* username taken at the insert, and none is answered 500.
C18_UniqueUsers ==
    /\ \A u, v \in users : u # v => (u.email # v.email /\ u.username # v.username)
    /\ \A i \in Slots :
          req[i].pc = "reg_insert" => ~UsersUniqueViolation(req[i].email, req[i].username)
    /\ resp.op = "register" => resp.status \in {201, 400, 409}

----------------------------------------------------------------------------
\* Specification of concurrent logins: alice is registered, two requests in
\* flight with their awaits interleaved in every order, the clock running

LoginInit ==
    /\ HttpIdle
    /\ LimiterIdle
    /\ env = [JWT_SECRET |-> "access-secret", JWT_REFRESH_SECRET |-> "refresh-secret",
            JWT_EXPIRY |-> Unset, JWT_REFRESH_EXPIRY |-> Unset]
    /\ now = 0
    /\ ticks = 0
    /\ users = {[user_id |-> 1, username |-> "alice", email |-> "a@x.com",
                 password_hash |-> bcryptHash("P@ssw0rd1")]}
    /\ nextUserId = 2
    /\ redis = {}
    /\ issued = {}
    /\ lastWritten = {}
    /\ loggedOut = {}
    /\ req = [i \in Slots |-> IdleReq]
    /\ resp = NoResp
    /\ RoleInit

LoginNext ==
    \/ \E i \in Slots, p \in Passwords : LoginQuery(i, "a@x.com", p)
    \/ \E i \in Slots : LoginStore(i)
    \/ \E i \in Slots : LoginUpdate(i)
    \/ \E i \in SeqSlots, t \in RefreshInputs : RefreshGet(i, t)
    \/ \E i \in SeqSlots : RefreshStore(i)
    \/ \E d \in TickSteps : Tick(d)

SpecLogin == LoginInit /\ [][LoginNext]_vars

\* C20: when two overlapping logins of one user have both written their
\* refresh token and one has been answered, the other about to be, the two
\* refresh tokens differ and, while both still verify, the cache holds exactly
\* one of them and the refresh route accepts that one and rejects the other.
C20_ConcurrentLogins ==
    \A i \in Slots :
        (/\ req[i].pc = "login_update"
         /\ resp.op = "login" /\ resp.status = 200
         /\ resp.out.refreshToken.userId = req[i].out.refreshToken.userId
         /\ verifyRefreshToken(env, req[i].out.refreshToken, now).ok
         /\ verifyRefreshToken(env, resp.out.refreshToken, now).ok) =>
            LET a == req[i].out.refreshToken
                b == resp.out.refreshToken
                stored == getRedis(redis, refreshKey(a.userId), now)
            IN /\ a # b
               /\ stored \in {a, b}
               /\ RefreshAccepts(a) # RefreshAccepts(b)

----------------------------------------------------------------------------
\* Specification of concurrent collaborator requests: two requests in flight,
\* their queries interleaved in every order

InviteNext == CollabNext(Slots)

SpecInvite == RoleSpecInit /\ [][InviteNext]_vars

\* C21: there is at most one collaboration row per (project, user); an invite
\* of a user who already has a row for the project is answered 409 and adds no
\* row: no invite is past its existing-collaborator check, about to insert,
\* while a row for its project and invited user exists.
C21_OneRowPerPair ==
    /\ \A c, d \in collabs :
          (c.project_id = d.project_id /\ c.user_id = d.user_id) => c = d
    /\ \A i \in Slots :
          mw[i].pc = "inv_insert" =>
             ~\E c \in collabs : c.project_id = mw[i].projectId /\ c.user_id = mw[i].invitedId

----------------------------------------------------------------------------
\* Specification of the rate limiters: requests of a caller key through
\* authLimiter or through strictLimiter, response completions, resets and the
\* clock

CheckedLimiters == {authLimiter, strictLimiter}
LimiterSteps == {StoreWindow, 4 * 60, 5 * 60}

\* the limiters keep separate counters: a behaviour exercises one of them
OnlyLimiter(l) == \A x \in LimiterKeys : x[1] # l.name => rlHist[x].requests = 0

LimiterNext ==
    \/ \E l \in CheckedLimiters, k \in CallerKeys : OnlyLimiter(l) /\ LimiterRequest(l, k)
    \/ \E l \in CheckedLimiters, k \in CallerKeys, ok \in BOOLEAN : LimiterFinish(l, k, ok)
    \/ \E l \in CheckedLimiters, k \in CallerKeys : LimiterResetKey(l, k)
    \/ \E d \in LimiterSteps : LimiterTick(d)

SpecLimiter == Init /\ [][LimiterNext]_vars

\* number of admissions of the sequence that fall in [from, from + length)
RECURSIVE AdmittedIn(_, _, _)
AdmittedIn(admits, from, length) ==
    IF admits = <<>> THEN 0
    ELSE (IF from <= Head(admits) /\ Head(admits) < from + length THEN 1 ELSE 0)
         + AdmittedIn(Tail(admits), from, length)

\* C22: strictLimiter admits at most 10 requests of a caller key within any
\* 5-minute window, and a caller's counter, once created, is still there until
\* 5 minutes have passed (admissions and counters taken since the last
\* resetKey of the key).
C22_StrictWindow ==
    \A k \in CallerKeys :
        LET h == rlHist[<<"strict", k>>]
        IN /\ \A j \in 1..Len(h.admits) : AdmittedIn(h.admits, h.admits[j], 5 * 60) <= 10
           /\ (h.admits # <<>> /\ now < h.start + 5 * 60) =>
                 \E x \in LiveLimits(limits, now) : x.key = redisKey("rl:strict:", k)

\* C30: after any sequence of increments, decrements, resets and expiries,
\* no stored counter is negative and every stored counter has an expiry, at
\* most one window of its limiter away.
C30_CounterInvariant ==
    \A l \in CheckedLimiters, k \in CallerKeys :
        \A x \in CounterOf(LiveLimits(limits, now), redisKey(l.prefix, k)) :
            /\ x.val >= 0
            /\ x.expireAt # NoExpiry
            /\ x.expireAt <= now + l.window

----------------------------------------------------------------------------
\* Specification of the session lifecycle under the documented settings of
\* JWT_REFRESH_EXPIRY: unset (7 days), one day, thirty days

ExpiryConfigs ==
    {[JWT_SECRET |-> "access-secret", JWT_REFRESH_SECRET |-> "refresh-secret",
      JWT_EXPIRY |-> Unset, JWT_REFRESH_EXPIRY |-> x] : x \in {Unset, "1d", "30d"}}

ExpiryInit ==
    /\ HttpIdle
    /\ LimiterIdle
    /\ env \in ExpiryConfigs
    /\ now = 0
    /\ ticks = 0
    /\ users = {}
    /\ nextUserId = 1
    /\ redis = {}
    /\ issued = {}
    /\ lastWritten = {}
    /\ loggedOut = {}
    /\ req = [i \in Slots |-> IdleReq]
    /\ resp = NoResp
    /\ RoleInit

ExpiryNext ==
    \/ AuthNext(SeqSlots)
    \/ Tick(Timespan("1d"))

SpecExpiry == ExpiryInit /\ [][ExpiryNext]_vars

\* C23: whenever the cache holds a refresh token, that token has not passed
\* its own expiry: the entry's TTL is the lifetime the token was signed with.
C23_CacheMirrorsExpiry ==
    \A x \in Live(redis, now) : now < JSONparse(x.val).exp

----------------------------------------------------------------------------
\* Properties of the collaborator routes (checked under SpecRole)

ManagementRoutes == {"invite", "collab_update", "collab_remove"}

\* the caller owns the request's project or has an accepted editor row on it
Manages(r) ==
    \/ r.userId \in OwnerRows(projects, r.projectId)
    \/ \E c \in collabs : /\ c.project_id = r.projectId
                          /\ c.user_id = r.userId
                          /\ c.role = "editor"
                          /\ c.accepted_at # NULL

MayManage(r) ==
    \/ Manages(r)
    \/ r.route = "collab_remove" /\ r.collab.user_id = r.userId

\* C24: an invite or an update past validation on an existing project succeeds,
\* or changes the collaboration table, only for the owner or an accepted
\* editor of the project, a removal only for such a caller or for the row's own
\* user; every other caller is answered 403 and the table stays as it was.
C24_ManagersOnly ==
    [][\A i \in SeqSlots :
          (mw[i].route \in ManagementRoutes /\ mw[i].pc # "idle" /\ mw'[i] = IdleMw) =>
             /\ mwResp'.status \in {200, 201} => MayManage(mw[i])
             /\ collabs' # collabs => MayManage(mw[i])
             /\ ~MayManage(mw[i]) => (mwResp'.status = 403 /\ collabs' = collabs)]_vars

\* C24 witness: a pending editor invitee's request to change a collaboration
\* of the project was answered 403
C24_Witness ==
    /\ mwResp.pc = "done"
    /\ mwResp.route = "collab_update"
    /\ mwResp.status = 403
    /\ \E c \in collabs : /\ c.project_id = mwResp.projectId
                          /\ c.user_id = mwResp.userId
                          /\ c.role = "editor"
                          /\ c.accepted_at = NULL

----------------------------------------------------------------------------
\* Specification of concurrent session requests: alice is registered, logins
\* run one at a time, refresh and logout requests run in two slots with their
\* awaits interleaved in every order

SessionNext ==
    \/ \E i \in SeqSlots : LoginQuery(i, "a@x.com", "P@ssw0rd1")
    \/ \E i \in SeqSlots : LoginStore(i)
    \/ \E i \in SeqSlots : LoginUpdate(i)
    \/ \E i \in Slots, t \in BearerInputs : Logout(i, TRUE, t)
    \/ \E i \in Slots, t \in RefreshInputs : RefreshGet(i, t)
    \/ \E i \in Slots : RefreshStore(i)
    \/ \E d \in TickSteps : Tick(d)

SpecSession == LoginInit /\ [][SessionNext]_vars

\* C26: a refresh token is redeemed at most once: no two requests presenting
\* the same token are both past the cache check, and no request presenting a
\* token is past the cache check when a refresh presenting that token has just
\* been answered 200.
C26_RedeemedOnce ==
    /\ \A i, j \in Slots :
          (i # j /\ req[i].pc = "refresh_store" /\ req[j].pc = "refresh_store")
             => req[i].tok # req[j].tok
    /\ \A i \in Slots :
          (req[i].pc = "refresh_store" /\ resp.op = "refresh" /\ resp.status = 200)
             => req[i].tok # resp.tok

\* C27: once a logout of a user was answered 200, no refresh request of that
\* user writes the cache and succeeds until the user logs in again.
C27_LogoutFinal ==
    [][\A i \in Slots :
          (req[i].pc = "refresh_store" /\ req'[i] = IdleReq)
             => req[i].decoded.userId \notin loggedOut]_vars

----------------------------------------------------------------------------
\* Specification of the bearer and refresh credentials together: alice is
\* registered and logs in, and every token she was sent is presented to
\* authenticateToken, optionalAuth, logout and refresh

KindsNext ==
    \/ \E i \in SeqSlots, e \in {"a@x.com", "invalid-email"}, p \in Passwords :
          LoginQuery(i, e, p)
    \/ \E i \in SeqSlots : LoginStore(i)
    \/ \E i \in SeqSlots : LoginUpdate(i)
    \/ \E i \in SeqSlots, t \in BearerInputs : authenticateToken(i, TRUE, t)
    \/ \E i \in SeqSlots : authenticateTokenUser(i)
    \/ \E i \in SeqSlots, t \in BearerInputs : optionalAuth(i, TRUE, t)
    \/ \E i \in SeqSlots : optionalAuthUser(i, FALSE)
    \/ \E i \in SeqSlots : Logout(i, FALSE, NoToken)
    \/ \E i \in SeqSlots, t \in BearerInputs : Logout(i, TRUE, t)
    \/ \E i \in SeqSlots, t \in RefreshInputs : RefreshGet(i, t)
    \/ \E i \in SeqSlots : RefreshStore(i)
    \/ \E d \in TickSteps : (\A i \in Slots : Free(i)) /\ Tick(d)

SpecKinds == LoginInit /\ [][KindsNext]_vars

IsRefreshToken(t) == \E p \in issued : p.refreshToken = t

IsAccessToken(t) == \E p \in issued : p.accessToken = t

\* C28: token kinds are not interchangeable: no request carrying a refresh
\* token as its bearer credential passes the verification of authenticateToken
\* or optionalAuth or is answered 200 by logout, and a refresh request carrying
\* an access token is refused 401 by the verification, before the cache is read.
C28_KindsApart ==
    /\ \A i \in Slots :
          req[i].pc \in {"auth_user", "opt_user"} => ~IsRefreshToken(req[i].tok)
    /\ (resp.op \in {"authenticate", "optionalAuth"} /\ resp.bearer /\ IsRefreshToken(resp.tok))
          => resp.user = NoUser
    /\ (resp.op = "logout" /\ resp.bearer /\ IsRefreshToken(resp.tok)) => resp.status # 200
    /\ \A i \in Slots : req[i].pc = "refresh_store" => ~IsAccessToken(req[i].tok)
    /\ (resp.op = "refresh" /\ IsAccessToken(resp.tok))
          => (resp.status = 401 /\ resp.decoded = NoToken)

\* C28 witness: a refresh token that the refresh route would accept was
\* presented as a bearer credential and refused, and an access token that
\* authenticateToken would accept is about to be presented to the refresh route
C28_Witness ==
    /\ resp.op = "authenticate"
    /\ resp.status = 401
    /\ IsRefreshToken(resp.tok)
    /\ RefreshOutcome(env, redis, resp.tok, now).status = 0
    /\ \E p \in issued : jwtVerify(p.accessToken, env.JWT_SECRET, now).ok

----------------------------------------------------------------------------
\* Frame of the rejected authentication requests (checked under SpecKinds)

Rejected(r) ==
    \/ r.op \in {"login", "refresh"} /\ r.status \in {400, 401}
    \/ r.op = "logout" /\ r.status = 401

\* C25: a login or a refresh answered 400 or 401, and a logout answered 401,
\* leave the refresh-token cache as it was: no entry is written, replaced or
\* deleted by the step that answers.
C25_RejectedLeavesCache ==
    [][Rejected(resp') => redis' = redis]_vars

\* C25 witness: a refresh with a verifying token that is not the cached one was
\* answered 401, and the cache still holds the other token
C25_Witness ==
    /\ resp.op = "refresh"
    /\ resp.status = 401
    /\ resp.decoded # NoToken
    /\ resp.stored # NoToken
    /\ resp.stored # resp.tok
    /\ getRedis(redis, refreshKey(resp.decoded.userId), now) = resp.stored

----------------------------------------------------------------------------
\* Specification of the ticket routes: a ticket is created, updated and
\* deleted while collaborators are removed, against every content of the
\* projects and project_collaborators tables drawn by ResolveInit

\* Update bodies: a title, an assignee (null or a user), or no field
TicketBodies ==
    {[hasTitle |-> TRUE, assign |-> [sent |-> FALSE, value |-> NULL]],
     [hasTitle |-> FALSE, assign |-> [sent |-> FALSE, value |-> NULL]]}
    \cup {[hasTitle |-> FALSE, assign |-> [sent |-> TRUE, value |-> u]] : u \in {NULL} \cup CallerIds}

IssuedTicketIds == 1..(nextTicketId - 1)

TicketNext ==
    \/ \E i \in SeqSlots, u \in CallerIds, p \in IssuedProjectIds, a \in {NULL} \cup CallerIds :
          TicketCreate(i, u, p, a)
    \/ \E i \in SeqSlots, u \in CallerIds, t \in IssuedTicketIds, b \in TicketBodies :
          TicketUpdateCheck(i, u, t, b.hasTitle, b.assign)
    \/ \E i \in SeqSlots : TicketUpdateEditor(i)
    \/ \E i \in SeqSlots : TicketUpdateWrite(i)
    \/ \E i \in SeqSlots, u \in CallerIds, t \in IssuedTicketIds : TicketDeleteCheck(i, u, t)
    \/ \E i \in SeqSlots : TicketDeleteEditor(i)
    \/ \E i \in SeqSlots : TicketDeleteWrite(i)
    \/ \E i \in SeqSlots, u \in CallerIds, c \in IssuedCollabIds : CollabRemoveCheck(i, u, c)
    \/ \E i \in SeqSlots : CollabRemoveEditor(i)
    \/ \E i \in SeqSlots : CollabRemoveDelete(i)

SpecTicket == ResolveInit /\ [][TicketNext]_vars

\* C29: a ticket update or delete is answered 200, or changes the tickets
\* table, only for a caller who at that moment owns the ticket's project or has
\* an accepted collaboration row on it.
C29_MembersOnly ==
    [][\A i \in SeqSlots :
          (/\ mw[i].route \in {"ticket_update", "ticket_delete"}
           /\ mw[i].pc # "idle"
           /\ mw'[i] = IdleMw
           /\ (mwResp'.status = 200 \/ tickets' # tickets))
             => AccessCheck(projects, collabs, mw[i].projectId, mw[i].userId) # {}]_vars

====
